---- MODULE Spec2Model ----
(***************************************************************************)
(* A model of felix/nftables: the Table reconciler (table.go) and the Rule *)
(* and Chain value types (rules.go).                                       *)
(*                                                                         *)
(* Strings that the code takes apart (rule comments, rule hashes) are      *)
(* sequences of tokens; a token is a record [k, s].  Times and durations   *)
(* are integers, in milliseconds.  SHA-224 and base64 are modelled as an   *)
(* injective function of the bytes hashed (no collisions).                 *)
(***************************************************************************)
EXTENDS Integers, Sequences, FiniteSets, TLC

\* ------------------------------------------------------------------ bounds

\* Depth of nested incref/decref calls after which the Go stack is taken
\* to be exhausted (a runaway recursion never returns).
MaxDepth == 6
\* Reference counts explored: -MaxRef .. MaxRef
MaxRef == 2
\* The clock runs from 0 to MaxTime milliseconds.
MaxTime == 400
\* Another process fills a chain up to MaxRules rules.
MaxRules == 2
\* Transaction runs fail on the kernel's side until the clock reads this.
MaxRetryTime == 6
\* InsertRulesNow is called on a chain as long as the chain then holds no
\* more than MaxChainLen rules.
MaxChainLen == 3
\* Most rules of other processes counted in a hook chain.
MaxForeign == 2

\* ------------------------------------------------------- program constants

minPostWriteInterval == 50
Hour == 3600000
maxCommentLen == 256
\* retries := 10 in Apply, retries := 3 in getHashesAndRulesFromDataplane
ApplyRetries == 10
ReadRetries == 3

\* tableToChains["cali-raw"]
KernelChains == <<"PREROUTING", "OUTPUT">>
BaseChains == {KernelChains[i] : i \in 1..Len(KernelChains)}
\* Chains whose names match ourChainsRegexp, "^(cali-)"
OwnedChains == {"cali-a", "cali-b"}
\* A chain of the table that is neither a kernel chain nor one of ours.
ForeignChains == {"FOREIGN"}
AllChains == BaseChains \cup OwnedChains \cup ForeignChains

ourChainsRegexp(name) == name \in OwnedChains

\* ----------------------------------------------------------------- strings

Lit(s) == [k |-> "lit", s |-> <<s>>]
HashTok(ss) == [k |-> "hash", s |-> ss]
Colon == Lit(":")
EmptyString == <<>>

\* hashPrefix as given to NewTable: "cali:"
hashCommentPrefix == <<Lit("cali"), Colon>>

\* strings.Split(s, ":")[0]
RECURSIVE SplitFirst(_)
SplitFirst(s) ==
  IF s = <<>> THEN <<>>
  ELSE IF Head(s) = Colon THEN <<>>
  ELSE <<Head(s)>> \o SplitFirst(Tail(s))

HasPrefix(s, p) == Len(s) >= Len(p) /\ SubSeq(s, 1, Len(p)) = p
TrimPrefix(s, p) == IF HasPrefix(s, p) THEN SubSeq(s, Len(p) + 1, Len(s)) ELSE s

\* strings.Join over a sequence of strings
RECURSIVE Join(_, _)
Join(parts, sep) ==
  IF parts = <<>> THEN <<>>
  ELSE IF Len(parts) = 1 THEN parts[1]
  ELSE parts[1] \o sep \o Join(Tail(parts), sep)

\* ------------------------------------------------------------ Rule, Chain

\* A Rule: Match and Action are the rendered fragments ("" renders nothing),
\* Target is the chain a Referrer action names ("" for any other action),
\* Comment is the list of comment lines.
MkRule(m, a, t, c) == [Match |-> m, Action |-> a, Target |-> t, Comment |-> c]

\* Characters outside [\w @%+=:,./-]
ShellUnsafe == {Lit("$"), Lit("\"")}
escapeComment(s) == [i \in 1..Len(s) |-> IF s[i] \in ShellUnsafe THEN Lit("_") ELSE s[i]]
truncateComment(s) == IF Len(s) > maxCommentLen THEN SubSeq(s, 1, maxCommentLen) ELSE s

NilComment == [nil |-> TRUE, s |-> <<>>]

\* Rule.comment: nil when the joined fragments are empty
comment(r, prefixFragment) ==
  LET fragments == [i \in 1..Len(r.Comment) |->
                      prefixFragment \o <<Lit(";"), Lit(" ")>>
                        \o truncateComment(escapeComment(r.Comment[i]))]
      cmt == Join(fragments, <<Lit(" ")>>)
  IN IF cmt = <<>> THEN NilComment ELSE [nil |-> FALSE, s |-> cmt]

\* Rule.renderInner: the non-empty fragments, "counter" when there are none
renderInner(r, fragments, prefixFragment) ==
  LET f1 == IF prefixFragment # "" THEN Append(fragments, prefixFragment) ELSE fragments
      f2 == IF r.Match # "" THEN Append(f1, r.Match) ELSE f1
      f3 == IF r.Action # "" THEN Append(f2, r.Action) ELSE f2
  IN IF f3 = <<>> THEN <<"counter">> ELSE f3

RenderAppend(r, table, chainName, prefixFragment) ==
  renderInner(r, <<"add rule", table, chainName>>, prefixFragment)

\* Rule.Render: a knftables.Rule (Handle 0 until the kernel or the caller sets it)
Render(r, chain, prefixFrag) ==
  [Chain |-> chain, Rule |-> renderInner(r, <<>>, ""), Target |-> r.Target,
   Comment |-> comment(r, prefixFrag), Handle |-> 0]

\* Chain.RuleHashes: hash i chains in hash i-1 and the rule rendered for hashing
RECURSIVE HashChain(_, _, _)
HashChain(name, rules, i) ==
  IF i = 0 THEN <<name>>
  ELSE HashChain(name, rules, i - 1) \o RenderAppend(rules[i], "", name, "HASH")

\* Hashes that leave the hash before out: each is of the chain name and
\* the one rule.
RuleHashes_Unchained(name, rules) ==
  [i \in 1..Len(rules) |-> <<HashTok(<<name>> \o RenderAppend(rules[i], "", name, "HASH"))>>]

RuleHashes(name, rules) ==
  [i \in 1..Len(rules) |-> <<HashTok(HashChain(name, rules, i))>>]

CalculateRuleHashes(chainName, rules) == RuleHashes(chainName, rules)

commentFrag(hash) == hashCommentPrefix \o hash

numEmptyStrings(strs) == Cardinality({i \in 1..Len(strs) : strs[i] = EmptyString})

\* -------------------------------------------------------------------- maps

\* A Go map is a function whose domain is the set of keys present.
Put(m, key, v) == [x \in (DOMAIN m) \cup {key} |-> IF x = key THEN v ELSE m[x]]
Del(m, key) == [x \in (DOMAIN m) \ {key} |-> m[x]]
Has(m, key) == key \in DOMAIN m
\* m[key] for a map of slices: the nil slice has no elements
Slice(m, key) == IF key \in DOMAIN m THEN m[key] ELSE <<>>
\* m[key] for a map of ints: 0 when the key is absent
Count(m, key) == IF key \in DOMAIN m THEN m[key] ELSE 0
EmptyMap == [x \in {} |-> 0]

\* The element of a one-element set.  Only({F(x) : x \in {e}}) is F(e) with
\* e evaluated once.
Only(S) == CHOOSE r \in S : TRUE

\* ------------------------------------------------------------------- state

VARIABLES
  chainToInsertedRules, chainToAppendedRules, dirtyInsertAppend,
  chainNameToChain, chainRefCounts, dirtyChains,
  inSyncWithDataPlane, chainToDataplaneHashes, chainToFullRules,
  insertMode, lastReadTime, lastWriteTime, initialPostWriteInterval,
  postWriteInterval, refreshInterval, peakNftablesReadTime,
  kernel,      \* the table in the kernel: chain name -> rules (knftables.Rule)
  clock,       \* what timeNow() returns
  crashed,     \* the process has panicked (or exhausted its stack)
  last         \* what the last call did and returned

tableVars == <<chainToInsertedRules, chainToAppendedRules, dirtyInsertAppend,
               chainNameToChain, chainRefCounts, dirtyChains,
               inSyncWithDataPlane, chainToDataplaneHashes, chainToFullRules,
               insertMode, lastReadTime, lastWriteTime, initialPostWriteInterval,
               postWriteInterval, refreshInterval, peakNftablesReadTime>>
vars == <<tableVars, kernel, clock, crashed, last>>

\* The Table as one value, for the operators that model its methods.
Table ==
  [chainToInsertedRules |-> chainToInsertedRules,
   chainToAppendedRules |-> chainToAppendedRules,
   dirtyInsertAppend |-> dirtyInsertAppend,
   chainNameToChain |-> chainNameToChain,
   chainRefCounts |-> chainRefCounts,
   dirtyChains |-> dirtyChains,
   inSyncWithDataPlane |-> inSyncWithDataPlane,
   chainToDataplaneHashes |-> chainToDataplaneHashes,
   chainToFullRules |-> chainToFullRules,
   insertMode |-> insertMode,
   lastReadTime |-> lastReadTime,
   lastWriteTime |-> lastWriteTime,
   initialPostWriteInterval |-> initialPostWriteInterval,
   postWriteInterval |-> postWriteInterval,
   refreshInterval |-> refreshInterval,
   peakNftablesReadTime |-> peakNftablesReadTime,
   overflow |-> FALSE]

SetTable(t) ==
  /\ chainToInsertedRules' = t.chainToInsertedRules
  /\ chainToAppendedRules' = t.chainToAppendedRules
  /\ dirtyInsertAppend' = t.dirtyInsertAppend
  /\ chainNameToChain' = t.chainNameToChain
  /\ chainRefCounts' = t.chainRefCounts
  /\ dirtyChains' = t.dirtyChains
  /\ inSyncWithDataPlane' = t.inSyncWithDataPlane
  /\ chainToDataplaneHashes' = t.chainToDataplaneHashes
  /\ chainToFullRules' = t.chainToFullRules
  /\ insertMode' = t.insertMode
  /\ lastReadTime' = t.lastReadTime
  /\ lastWriteTime' = t.lastWriteTime
  /\ initialPostWriteInterval' = t.initialPostWriteInterval
  /\ postWriteInterval' = t.postWriteInterval
  /\ refreshInterval' = t.refreshInterval
  /\ peakNftablesReadTime' = t.peakNftablesReadTime

\* peakNftablesWriteTime is declared and read but never assigned.
peakNftablesWriteTime == 0

\* The zero time.Time of lastReadTime before the first read: long ago.
ZeroTime == 0 - 100 * Hour

\* What the caller saw of a call.  same: the call was an UpdateChain that
\* passed again, for a referenced chain, the rules the kernel holds for it.
\* prev: the call before, kept by Apply only.  foreign: the chains another
\* process changed in the kernel since the Apply before.  cause: what made
\* the call panic, if it did.  err: the call returned an error.  rules: the
\* rules CheckRulesPresent was given; present: the rules it returned.  peak:
\* peakNftablesReadTime as applyUpdates read it for the dynamic minimum.
NoCall == [op |-> "", chain |-> "", same |-> FALSE, returned |-> TRUE]
Summary(l) == [op |-> l.op, chain |-> l.chain, same |-> l.same, returned |-> l.returned]
ForeignSince(l) == IF l.op = "Apply" THEN {} ELSE l.foreign

\* What a call leaves in last: Apply fills in the fields from rescheduleAfter on.
Outcome(op, chain, same, prev, foreign) ==
  [op |-> op, chain |-> chain, same |-> same, returned |-> TRUE, prev |-> prev,
   foreign |-> foreign, cause |-> "", err |-> FALSE,
   rescheduleAfter |-> 0, now |-> 0, attempts |-> 0, runs |-> 0, commits |-> 0,
   reads |-> 0, tx |-> <<>>, events |-> <<>>, rules |-> <<>>, present |-> <<>>,
   peak |-> 0]
Called(op, chain, same) == Outcome(op, chain, same, NoCall, ForeignSince(last))

\* NewTable
NewTable(mode, refresh, postWrite) ==
  /\ chainToInsertedRules = [c \in BaseChains |-> <<>>]
  /\ chainToAppendedRules = [c \in BaseChains |-> <<>>]
  /\ dirtyInsertAppend = BaseChains
  /\ chainNameToChain = EmptyMap
  /\ chainRefCounts = [c \in BaseChains |-> 1]
  /\ dirtyChains = {}
  /\ inSyncWithDataPlane = FALSE
  /\ chainToDataplaneHashes = EmptyMap
  /\ chainToFullRules = EmptyMap
  /\ insertMode = mode
  /\ lastReadTime = ZeroTime
  /\ lastWriteTime = clock
  /\ initialPostWriteInterval =
       (IF postWrite <= minPostWriteInterval THEN minPostWriteInterval ELSE postWrite)
  /\ postWriteInterval = initialPostWriteInterval
  /\ refreshInterval = refresh
  /\ peakNftablesReadTime = 0
  /\ crashed = FALSE
  /\ last = Outcome("NewTable", "", FALSE, NoCall, {})

\* ---------------------------------------------------------- refcount graph

chainIsReferenced(t, name) == Count(t.chainRefCounts, name) > 0

RECURSIVE maybeIncrefReferredChains(_, _, _, _)
RECURSIVE maybeDecrefReferredChains(_, _, _, _)
RECURSIVE increfChain(_, _, _)
RECURSIVE decrefChain(_, _, _)
RECURSIVE IncrefEach(_, _, _, _)
RECURSIVE DecrefEach(_, _, _, _)

\* for _, r := range rules { if Referrer: increfChain(target) }, from rule i on
IncrefEach(t, rules, i, depth) ==
  IF i > Len(rules) \/ t.overflow THEN t
  ELSE IF rules[i].Target # ""
       THEN IncrefEach(increfChain(t, rules[i].Target, depth), rules, i + 1, depth)
       ELSE IncrefEach(t, rules, i + 1, depth)

DecrefEach(t, rules, i, depth) ==
  IF i > Len(rules) \/ t.overflow THEN t
  ELSE IF rules[i].Target # ""
       THEN DecrefEach(decrefChain(t, rules[i].Target, depth), rules, i + 1, depth)
       ELSE DecrefEach(t, rules, i + 1, depth)

maybeIncrefReferredChains(t, chainName, rules, depth) ==
  IF ~chainIsReferenced(t, chainName) THEN t ELSE IncrefEach(t, rules, 1, depth)

maybeDecrefReferredChains(t, chainName, rules, depth) ==
  IF ~chainIsReferenced(t, chainName) THEN t ELSE DecrefEach(t, rules, 1, depth)

increfChain(t, chainName, depth) ==
  IF depth > MaxDepth THEN [t EXCEPT !.overflow = TRUE]
  ELSE
    LET t1 == [t EXCEPT !.chainRefCounts =
                 Put(t.chainRefCounts, chainName, Count(t.chainRefCounts, chainName) + 1)]
    IN IF t1.chainRefCounts[chainName] = 1
       THEN LET t2 == [t1 EXCEPT !.dirtyChains = @ \cup {chainName}]
            IN IF Has(t2.chainNameToChain, chainName)
               THEN maybeIncrefReferredChains(t2, chainName,
                                              t2.chainNameToChain[chainName], depth + 1)
               ELSE t2
       ELSE t1

\* A decrement that never collects: the count goes down and nothing else.
decrefChain_NoCollect(t, chainName, depth) ==
  [t EXCEPT !.chainRefCounts =
     Put(t.chainRefCounts, chainName, Count(t.chainRefCounts, chainName) - 1)]

decrefChain(t, chainName, depth) ==
  IF depth > MaxDepth THEN [t EXCEPT !.overflow = TRUE]
  ELSE
    IF Count(t.chainRefCounts, chainName) = 1
    THEN LET t1 == IF Has(t.chainNameToChain, chainName)
                   THEN maybeDecrefReferredChains(t, chainName,
                                                  t.chainNameToChain[chainName], depth + 1)
                   ELSE t
         IN [t1 EXCEPT !.chainRefCounts = Del(t1.chainRefCounts, chainName),
                       !.dirtyChains = @ \cup {chainName}]
    ELSE [t EXCEPT !.chainRefCounts =
            Put(t.chainRefCounts, chainName, Count(t.chainRefCounts, chainName) - 1)]

\* An invalidation that leaves the flag as it is.
InvalidateDataplaneCacheT_Keep(t) == t

InvalidateDataplaneCacheT(t) ==
  IF ~t.inSyncWithDataPlane THEN t ELSE [t EXCEPT !.inSyncWithDataPlane = FALSE]

\* ---------------------------------------------------------------- mutations

InsertOrAppendRulesT(t, chainName, rules) ==
  LET oldRules == Slice(t.chainToInsertedRules, chainName)
      t1 == [t EXCEPT !.chainToInsertedRules = Put(@, chainName, rules),
                      !.dirtyInsertAppend = @ \cup {chainName}]
      t2 == maybeIncrefReferredChains(t1, chainName, rules, 1)
      t3 == maybeDecrefReferredChains(t2, chainName, oldRules, 1)
  IN InvalidateDataplaneCacheT(t3)

AppendRulesT(t, chainName, rules) ==
  LET oldRules == Slice(t.chainToAppendedRules, chainName)
      t1 == [t EXCEPT !.chainToAppendedRules = Put(@, chainName, rules),
                      !.dirtyInsertAppend = @ \cup {chainName}]
      t2 == maybeIncrefReferredChains(t1, chainName, rules, 1)
      t3 == maybeDecrefReferredChains(t2, chainName, oldRules, 1)
  IN InvalidateDataplaneCacheT(t3)

UpdateChainT(t, name, rules) ==
  LET t1 == maybeIncrefReferredChains(t, name, rules, 1)
      t2 == IF Has(t1.chainNameToChain, name)
            THEN maybeDecrefReferredChains(t1, name, t1.chainNameToChain[name], 1)
            ELSE t1
      t3 == [t2 EXCEPT !.chainNameToChain = Put(@, name, rules)]
  IN IF chainIsReferenced(t3, name)
     THEN InvalidateDataplaneCacheT([t3 EXCEPT !.dirtyChains = @ \cup {name}])
     ELSE t3

RemoveChainByNameT(t, name) ==
  IF Has(t.chainNameToChain, name)
  THEN LET t1 == maybeDecrefReferredChains(t, name, t.chainNameToChain[name], 1)
           t2 == [t1 EXCEPT !.chainNameToChain = Del(@, name)]
       IN IF chainIsReferenced(t2, name)
          THEN InvalidateDataplaneCacheT([t2 EXCEPT !.dirtyChains = @ \cup {name}])
          ELSE t2
  ELSE t

\* A mutation call: the table becomes t, unless the call exhausted the stack.
Mutated(op, chain, same, result) ==
  /\ ~crashed
  /\ \E t \in {result} :
       /\ \A c \in DOMAIN t.chainRefCounts :
            t.chainRefCounts[c] \in (0 - MaxRef)..MaxRef
       /\ IF t.overflow
          THEN /\ crashed' = TRUE
               /\ last' = [Called(op, chain, same) EXCEPT !.returned = FALSE]
               /\ UNCHANGED tableVars
          ELSE /\ crashed' = FALSE
               /\ last' = Called(op, chain, same)
               /\ SetTable(t)
  /\ UNCHANGED <<kernel, clock>>

\* Table k holds chain name with exactly the rules that rules render to, in order.
KernelHolds(k, name, rules) ==
  /\ name \in DOMAIN k
  /\ Len(k[name]) = Len(rules)
  /\ \A i \in 1..Len(rules) :
       [k[name][i] EXCEPT !.Handle = 0]
         = Render(rules[i], name, commentFrag(RuleHashes(name, rules)[i]))

UpdateChain(name, rules) ==
  Mutated("UpdateChain", name,
          /\ chainIsReferenced(Table, name)
          /\ Has(chainNameToChain, name)
          /\ chainNameToChain[name] = rules
          /\ KernelHolds(kernel, name, rules),
          UpdateChainT(Table, name, rules))
RemoveChainByName(name) ==
  Mutated("RemoveChainByName", name, FALSE, RemoveChainByNameT(Table, name))
InsertOrAppendRules(chainName, rules) ==
  Mutated("InsertOrAppendRules", chainName, FALSE,
          InsertOrAppendRulesT(Table, chainName, rules))
AppendRules(chainName, rules) ==
  Mutated("AppendRules", chainName, FALSE, AppendRulesT(Table, chainName, rules))
InvalidateDataplaneCache ==
  Mutated("InvalidateDataplaneCache", "", FALSE, InvalidateDataplaneCacheT(Table))

\* ------------------------------------------------------------------ kernel
\* The nftables table behind knftables.Interface: a map from chain name to
\* the chain's rules.  A transaction is all or nothing; an operation on a
\* chain or a handle that does not exist, a jump to a chain that does not
\* exist and the deletion of a chain that is still jumped to fail it.

NoRule == [Chain |-> "", Rule |-> <<>>, Target |-> "", Comment |-> NilComment, Handle |-> 0]
Op(kind, chain, rule) == [op |-> kind, chain |-> chain, rule |-> rule]

HandlesOf(m) == UNION {{m[c][i].Handle : i \in 1..Len(m[c])} : c \in DOMAIN m}

\* The handle the kernel gives a new rule: one no rule of the table has and
\* the caller does not hold.
FreshHandle(k, held) ==
  LET used == HandlesOf(k) \cup held
  IN CHOOSE n \in 1..(Cardinality(used) + 1) :
       /\ n \notin used
       /\ \A m \in 1..(n - 1) : m \in used

IndexOfHandle(rules, h) ==
  IF \E i \in 1..Len(rules) : rules[i].Handle = h
  THEN CHOOSE i \in 1..Len(rules) : rules[i].Handle = h
  ELSE 0

RemoveAt(sq, i) == SubSeq(sq, 1, i - 1) \o SubSeq(sq, i + 1, Len(sq))

JumpedTo(k, chain) == \E c \in DOMAIN k : \E i \in 1..Len(k[c]) : k[c][i].Target = chain

TargetOk(k, rule) == rule.Target = "" \/ rule.Target \in DOMAIN k

Failed(k) == [ok |-> FALSE, k |-> k]
Done(k) == [ok |-> TRUE, k |-> k]

\* One operation of a transaction on table k.
ExecOp(k, o, held) ==
  CASE o.op = "add table" -> Done(k)
    [] o.op = "add chain" ->
         IF o.chain \in DOMAIN k THEN Done(k) ELSE Done(Put(k, o.chain, <<>>))
    [] o.op = "flush chain" ->
         IF o.chain \in DOMAIN k THEN Done(Put(k, o.chain, <<>>)) ELSE Failed(k)
    [] o.op = "delete chain" ->
         IF o.chain \in DOMAIN k /\ ~JumpedTo(Del(k, o.chain), o.chain)
         THEN Done(Del(k, o.chain)) ELSE Failed(k)
    [] o.op = "add rule" ->
         IF o.chain \in DOMAIN k /\ TargetOk(k, o.rule)
         THEN Done(Put(k, o.chain,
                       Append(k[o.chain], [o.rule EXCEPT !.Handle = FreshHandle(k, held)])))
         ELSE Failed(k)
    [] o.op = "insert rule" ->
         IF o.chain \in DOMAIN k /\ TargetOk(k, o.rule)
         THEN Done(Put(k, o.chain,
                       <<[o.rule EXCEPT !.Handle = FreshHandle(k, held)]>> \o k[o.chain]))
         ELSE Failed(k)
    [] o.op = "replace rule" ->
         IF o.chain \in DOMAIN k /\ TargetOk(k, o.rule)
              /\ IndexOfHandle(k[o.chain], o.rule.Handle) > 0
         THEN Done(Put(k, o.chain,
                       [k[o.chain] EXCEPT ![IndexOfHandle(k[o.chain], o.rule.Handle)] = o.rule]))
         ELSE Failed(k)
    [] o.op = "delete rule" ->
         IF o.chain \in DOMAIN k /\ IndexOfHandle(k[o.chain], o.rule.Handle) > 0
         THEN Done(Put(k, o.chain,
                       RemoveAt(k[o.chain], IndexOfHandle(k[o.chain], o.rule.Handle))))
         ELSE Failed(k)
    [] OTHER -> Failed(k)

RECURSIVE ExecFrom(_, _, _, _)
ExecFrom(k, tx, i, held) ==
  IF i > Len(tx) THEN Done(k)
  ELSE LET r == ExecOp(k, tx[i], held)
       IN IF r.ok THEN ExecFrom(r.k, tx, i + 1, held) ELSE r

\* nft.Run: the table after the transaction, or the table as it was and an error
RunTx(k, tx, held) ==
  LET r == ExecFrom(k, tx, 1, held)
  IN IF r.ok THEN r ELSE Failed(k)

\* ---------------------------------------------------------- dataplane reader

\* The hash read back from one rule of the kernel.
HashOfRule(rule) ==
  IF rule.Comment.nil THEN EmptyString
  ELSE TrimPrefix(SplitFirst(rule.Comment.s), hashCommentPrefix)

\* attemptToGetHashesAndRulesFromDataplane, when List and ListRules succeed
ReadHashes(k) == [c \in DOMAIN k |-> [i \in 1..Len(k[c]) |-> HashOfRule(k[c][i])]]
ReadRules(k) == k

\* A layout that puts the inserted hashes first in either mode.
expectedHashes_InsertedFirst(t, chainName, numNonCalicoRules) ==
  LET ourInsertedHashes ==
        CalculateRuleHashes(chainName, Slice(t.chainToInsertedRules, chainName))
      ourAppendedHashes ==
        CalculateRuleHashes(chainName \o "*appends*", Slice(t.chainToAppendedRules, chainName))
  IN [all |-> ourInsertedHashes \o [i \in 1..numNonCalicoRules |-> EmptyString]
                \o ourAppendedHashes,
      inserted |-> ourInsertedHashes, appended |-> ourAppendedHashes]

\* expectedHashesForInsertAppendChain
expectedHashesForInsertAppendChain(t, chainName, numNonCalicoRules) ==
  LET insertedRules == Slice(t.chainToInsertedRules, chainName)
      appendedRules == Slice(t.chainToAppendedRules, chainName)
      ourInsertedHashes == CalculateRuleHashes(chainName, insertedRules)
      ourAppendedHashes == CalculateRuleHashes(chainName \o "*appends*", appendedRules)
      n == Len(insertedRules) + Len(appendedRules) + numNonCalicoRules
      offset == IF t.insertMode = "append" THEN numNonCalicoRules ELSE 0
      offset2 == Len(insertedRules) + numNonCalicoRules
      allHashes == [i \in 1..n |->
                      IF i > offset2 THEN ourAppendedHashes[i - offset2]
                      ELSE IF i > offset /\ i <= offset + Len(insertedRules)
                           THEN ourInsertedHashes[i - offset]
                           ELSE EmptyString]
  IN [all |-> allHashes, inserted |-> ourInsertedHashes, appended |-> ourAppendedHashes]

\* reflect.DeepEqual of two slices of a map: a nil slice equals only a nil slice
DeepEqualSlice(aPresent, a, bPresent, b) == aPresent = bPresent /\ a = b

\* The first loop of loadDataplaneState: is chainName, one of the chains of
\* chainToDataplaneHashes, found out of sync?
OutOfSyncInserts(t, dataplaneHashes, chainName) ==
  LET dpHashes == Slice(dataplaneHashes, chainName)
      insertedRules == Slice(t.chainToInsertedRules, chainName)
  IN IF Len(insertedRules) = 0
     THEN \E i \in 1..Len(dpHashes) : dpHashes[i] # EmptyString
     ELSE ~DeepEqualSlice(Has(dataplaneHashes, chainName), dpHashes, TRUE,
             expectedHashesForInsertAppendChain(t, chainName, numEmptyStrings(dpHashes)).all)

OutOfSyncChain(t, dataplaneHashes, chainName) ==
  ~DeepEqualSlice(Has(dataplaneHashes, chainName), Slice(dataplaneHashes, chainName),
                  TRUE, t.chainToDataplaneHashes[chainName])

\* loadDataplaneState, given what getHashesAndRulesFromDataplane returned
LoadedState(t, dataplaneHashes, dataplaneRules, readTime) ==
  LET known(c) == c \in t.dirtyChains \/ c \in t.dirtyInsertAppend
      expected == DOMAIN t.chainToDataplaneHashes
      found == DOMAIN dataplaneHashes
      \* first loop: the chains we think we have programmed
      ins1 == {c \in expected : ~known(c) /\ ~ourChainsRegexp(c)
                                 /\ OutOfSyncInserts(t, dataplaneHashes, c)}
      own1 == {c \in expected : ~known(c) /\ ourChainsRegexp(c)
                                 /\ OutOfSyncChain(t, dataplaneHashes, c)}
      known2(c) == known(c) \/ c \in ins1 \/ c \in own1
      \* second loop: the chains that should not be there
      ins2 == {c \in found : ~known2(c) /\ c \notin expected /\ ~ourChainsRegexp(c)
                              /\ \E i \in 1..Len(dataplaneHashes[c]) :
                                   dataplaneHashes[c][i] # EmptyString}
      own2 == {c \in found : ~known2(c) /\ c \notin expected /\ ourChainsRegexp(c)}
  IN [t EXCEPT !.lastReadTime = readTime,
               !.dirtyInsertAppend = @ \cup ins1 \cup ins2,
               !.dirtyChains = @ \cup own1 \cup own2,
               !.chainToDataplaneHashes = dataplaneHashes,
               !.chainToFullRules = dataplaneRules,
               !.inSyncWithDataPlane = TRUE]

\* ------------------------------------------------------------------- Apply
\* A call in progress: the table t, the kernel k, the clock, how many more
\* kernel reads (rfail) and transaction runs (wfail) fail for reasons of the
\* kernel's own, how long a read takes, and what the call has done so far.

Ctx(t, k, now, rfail, wfail, readDur) ==
  [t |-> t, k |-> k, clock |-> now, rfail |-> rfail, wfail |-> wfail,
   readDur |-> readDur, panic |-> FALSE, cause |-> "", err |-> FALSE,
   attempts |-> 0, runs |-> 0, commits |-> 0, reads |-> 0, tx |-> <<>>,
   events |-> <<>>, peak |-> 0]

\* A read loop that sleeps the same 100ms before every retry.
RECURSIVE getHashesAndRulesFromDataplane_FixedDelay(_, _, _)
getHashesAndRulesFromDataplane_FixedDelay(X, retries, retryDelay) ==
  LET decayed == (X.t.peakNftablesReadTime * 99) \div 100
      peak == IF X.readDur > decayed THEN X.readDur ELSE decayed
      X1 == [X EXCEPT !.events = @ \o <<"alive", "read">>,
                      !.clock = @ + X.readDur,
                      !.t.peakNftablesReadTime = peak]
  IN IF X1.rfail > 0
     THEN IF retries > 0
          THEN getHashesAndRulesFromDataplane_FixedDelay(
                 [X1 EXCEPT !.rfail = @ - 1, !.clock = @ + retryDelay],
                 retries - 1, retryDelay)
          ELSE [X1 EXCEPT !.panic = TRUE, !.cause = "read"]
     ELSE [X1 EXCEPT !.reads = @ + 1]

\* A read loop that calls onStillAlive once, before the loop.
RECURSIVE getHashesAndRulesFromDataplane_AliveOnce(_, _, _)
getHashesAndRulesFromDataplane_AliveOnce(X, retries, retryDelay) ==
  LET decayed == (X.t.peakNftablesReadTime * 99) \div 100
      peak == IF X.readDur > decayed THEN X.readDur ELSE decayed
      X1 == [X EXCEPT !.events = @ \o (IF retries = ReadRetries
                                       THEN <<"alive", "read">> ELSE <<"read">>),
                      !.clock = @ + X.readDur,
                      !.t.peakNftablesReadTime = peak]
  IN IF X1.rfail > 0
     THEN IF retries > 0
          THEN getHashesAndRulesFromDataplane_AliveOnce(
                 [X1 EXCEPT !.rfail = @ - 1, !.clock = @ + retryDelay],
                 retries - 1, retryDelay * 2)
          ELSE [X1 EXCEPT !.panic = TRUE, !.cause = "read"]
     ELSE [X1 EXCEPT !.reads = @ + 1]

\* getHashesAndRulesFromDataplane: the read loop, up to the read that
\* succeeds or the panic.  Every attempt decays and raises the peak read time.
RECURSIVE getHashesAndRulesFromDataplane(_, _, _)
getHashesAndRulesFromDataplane(X, retries, retryDelay) ==
  LET decayed == (X.t.peakNftablesReadTime * 99) \div 100
      peak == IF X.readDur > decayed THEN X.readDur ELSE decayed
      X1 == [X EXCEPT !.events = @ \o <<"alive", "read">>,
                      !.clock = @ + X.readDur,
                      !.t.peakNftablesReadTime = peak]
  IN IF X1.rfail > 0
     THEN IF retries > 0
          THEN getHashesAndRulesFromDataplane(
                 [X1 EXCEPT !.rfail = @ - 1, !.clock = @ + retryDelay],
                 retries - 1, retryDelay * 2)
          ELSE [X1 EXCEPT !.panic = TRUE, !.cause = "read"]
     ELSE [X1 EXCEPT !.reads = @ + 1]

loadDataplaneState(X) ==
  Only({ IF X1.panic THEN X1
         ELSE [X1 EXCEPT !.t = Only({ LoadedState(X1.t, h, ReadRules(X1.k), X.clock) :
                                      h \in {ReadHashes(X1.k)} })] :
         X1 \in {getHashesAndRulesFromDataplane(X, ReadRetries, 100)} })

\* A desired state that asks the cache alone.
desiredStateOfChain_CacheOnly(t, chainName) == Has(t.chainNameToChain, chainName)

\* desiredStateOfChain: present iff referenced and in chainNameToChain
desiredStateOfChain(t, chainName) ==
  chainIsReferenced(t, chainName) /\ Has(t.chainNameToChain, chainName)

\* The order in which one call iterates over a set of chain names.
ChainOrder == <<"PREROUTING", "OUTPUT", "cali-a", "cali-b", "FOREIGN">>
Orders == {"forward", "reverse"}
RECURSIVE Filter(_, _)
Filter(sq, S) ==
  IF sq = <<>> THEN <<>>
  ELSE IF Head(sq) \in S THEN <<Head(sq)>> \o Filter(Tail(sq), S)
  ELSE Filter(Tail(sq), S)
Reverse(sq) == [i \in 1..Len(sq) |-> sq[Len(sq) + 1 - i]]
Iter(S, ord) == Filter(IF ord = "forward" THEN ChainOrder ELSE Reverse(ChainOrder), S)

RECURSIVE Concat(_)
Concat(sqs) == IF sqs = <<>> THEN <<>> ELSE Head(sqs) \o Concat(Tail(sqs))

Max(a, b) == IF a > b THEN a ELSE b

\* The first pass over dirtyChains: flush what is about to be deleted,
\* declare what is not in the dataplane yet.
ForwardOps(t, chainName) ==
  IF ~desiredStateOfChain(t, chainName) THEN <<Op("flush chain", chainName, NoRule)>>
  ELSE IF ~Has(t.chainToDataplaneHashes, chainName)
       THEN <<Op("add chain", chainName, NoRule)>>
       ELSE <<>>

\* The second pass, for rule i of a chain whose desired state is present.
\* The branch for i beyond currentHashes indexes currentHashes[i] and
\* chain.Rules[i], which panics; so does a handle looked up beyond
\* chainToFullRules[chainName].
RuleOpPanics(t, chainName, i) ==
  LET previousHashes == Slice(t.chainToDataplaneHashes, chainName)
      currentHashes == RuleHashes(chainName, t.chainNameToChain[chainName])
  IN IF i <= Len(previousHashes) /\ i <= Len(currentHashes)
     THEN previousHashes[i] # currentHashes[i]
            /\ i > Len(Slice(t.chainToFullRules, chainName))
     ELSE i <= Len(previousHashes)

\* A second pass that does not compare the hashes: it replaces every rule the
\* dataplane holds.
RuleOp_AlwaysReplace(t, chainName, i) ==
  LET previousHashes == Slice(t.chainToDataplaneHashes, chainName)
      rules == t.chainNameToChain[chainName]
      currentHashes == RuleHashes(chainName, rules)
      rendered == Render(rules[i], chainName, commentFrag(currentHashes[i]))
  IN IF i <= Len(previousHashes) /\ i <= Len(currentHashes)
     THEN <<Op("replace rule", chainName,
               [rendered EXCEPT !.Handle = t.chainToFullRules[chainName][i].Handle])>>
     ELSE <<Op("add rule", chainName, rendered)>>

RuleOp(t, chainName, i) ==
  LET previousHashes == Slice(t.chainToDataplaneHashes, chainName)
      rules == t.chainNameToChain[chainName]
      currentHashes == RuleHashes(chainName, rules)
      rendered == Render(rules[i], chainName, commentFrag(currentHashes[i]))
  IN IF i <= Len(previousHashes) /\ i <= Len(currentHashes)
     THEN IF previousHashes[i] = currentHashes[i] THEN <<>>
          ELSE <<Op("replace rule", chainName,
                    [rendered EXCEPT !.Handle = t.chainToFullRules[chainName][i].Handle])>>
     ELSE <<Op("add rule", chainName, rendered)>>

ChainLen(t, chainName) ==
  Max(Len(Slice(t.chainToDataplaneHashes, chainName)),
      Len(Slice(t.chainNameToChain, chainName)))

ChainOps(t, chainName) ==
  IF desiredStateOfChain(t, chainName)
  THEN Concat([i \in 1..ChainLen(t, chainName) |-> RuleOp(t, chainName, i)])
  ELSE <<>>

ChainPanics(t, chainName) ==
  /\ desiredStateOfChain(t, chainName)
  /\ \E i \in 1..ChainLen(t, chainName) : RuleOpPanics(t, chainName, i)

\* The pass over dirtyInsertAppend.
HookInSync(t, chainName) ==
  LET previousHashes == Slice(t.chainToDataplaneHashes, chainName)
      e == expectedHashesForInsertAppendChain(t, chainName, numEmptyStrings(previousHashes))
  IN DeepEqualSlice(TRUE, e.all, Has(t.chainToDataplaneHashes, chainName), previousHashes)

\* A pass that inserts the inserted rules in their declared order.
HookOps_DeclaredOrder(t, chainName) ==
  LET previousHashes == Slice(t.chainToDataplaneHashes, chainName)
      e == expectedHashesForInsertAppendChain(t, chainName, numEmptyStrings(previousHashes))
      ins == Slice(t.chainToInsertedRules, chainName)
      app == Slice(t.chainToAppendedRules, chainName)
      n == Len(ins)
  IN IF HookInSync(t, chainName) THEN <<>>
     ELSE <<Op("flush chain", chainName, NoRule)>>
          \o [j \in 1..n |-> Op("insert rule", chainName,
                      Render(ins[j], chainName, commentFrag(e.inserted[j])))]
          \o [j \in 1..Len(app) |-> Op("add rule", chainName,
                      Render(app[j], chainName, commentFrag(e.appended[j])))]

HookOps(t, chainName) ==
  LET previousHashes == Slice(t.chainToDataplaneHashes, chainName)
      e == expectedHashesForInsertAppendChain(t, chainName, numEmptyStrings(previousHashes))
      ins == Slice(t.chainToInsertedRules, chainName)
      app == Slice(t.chainToAppendedRules, chainName)
      n == Len(ins)
  IN IF HookInSync(t, chainName) THEN <<>>
     ELSE <<Op("flush chain", chainName, NoRule)>>
          \o (IF t.insertMode = "insert"
              THEN [j \in 1..n |-> Op("insert rule", chainName,
                      Render(ins[n + 1 - j], chainName, commentFrag(e.inserted[n + 1 - j])))]
              ELSE [j \in 1..n |-> Op("add rule", chainName,
                      Render(ins[j], chainName, commentFrag(e.inserted[j])))])
          \o [j \in 1..Len(app) |-> Op("add rule", chainName,
                      Render(app[j], chainName, commentFrag(e.appended[j])))]

\* A last pass that deletes nothing.
DeleteOps_None(t, chainName) == <<>>

\* The last pass over dirtyChains: the deletions.
DeleteOps(t, chainName) ==
  IF ~desiredStateOfChain(t, chainName) THEN <<Op("delete chain", chainName, NoRule)>>
  ELSE <<>>

\* A transaction with the deletions ahead of the rule changes.
BuildTx_DeletionsFirst(t, ord) ==
  LET dirty == Iter(t.dirtyChains, ord)
      hooks == Iter(t.dirtyInsertAppend, ord)
  IN <<Op("add table", "", NoRule)>>
     \o [i \in 1..Len(KernelChains) |-> Op("add chain", KernelChains[i], NoRule)]
     \o Concat([i \in 1..Len(dirty) |-> ForwardOps(t, dirty[i])])
     \o Concat([i \in 1..Len(dirty) |-> DeleteOps(t, dirty[i])])
     \o Concat([i \in 1..Len(dirty) |-> ChainOps(t, dirty[i])])
     \o Concat([i \in 1..Len(hooks) |-> HookOps(t, hooks[i])])

\* The transaction applyUpdates builds.
BuildTx(t, ord) ==
  LET dirty == Iter(t.dirtyChains, ord)
      hooks == Iter(t.dirtyInsertAppend, ord)
  IN <<Op("add table", "", NoRule)>>
     \o [i \in 1..Len(KernelChains) |-> Op("add chain", KernelChains[i], NoRule)]
     \o Concat([i \in 1..Len(dirty) |-> ForwardOps(t, dirty[i])])
     \o Concat([i \in 1..Len(dirty) |-> ChainOps(t, dirty[i])])
     \o Concat([i \in 1..Len(hooks) |-> HookOps(t, hooks[i])])
     \o Concat([i \in 1..Len(dirty) |-> DeleteOps(t, dirty[i])])

BuildPanics(t) == \E c \in t.dirtyChains : ChainPanics(t, c)

\* chainToDataplaneHashes with newHashes stored off
StoreHashes(t) ==
  LET old == t.chainToDataplaneHashes
      written == {c \in t.dirtyChains : desiredStateOfChain(t, c)}
      deleted == {c \in t.dirtyChains : ~desiredStateOfChain(t, c)}
      hooked == {c \in t.dirtyInsertAppend : ~HookInSync(t, c)}
  IN [c \in ((DOMAIN old) \cup written \cup hooked) \ deleted |->
        IF c \in hooked
        THEN expectedHashesForInsertAppendChain(t, c,
               numEmptyStrings(Slice(old, c))).all
        ELSE IF c \in written THEN RuleHashes(c, t.chainNameToChain[c])
        ELSE old[c]]

StoreFullRules(t) ==
  LET old == t.chainToFullRules
      hooked == {c \in t.dirtyInsertAppend : ~HookInSync(t, c)}
  IN [c \in (DOMAIN old) \cup hooked |-> Slice(old, c)]

\* A commit that leaves the post-write interval at its initial value.
CommittedTable_NoDynamicMin(X, ran) ==
  LET t == X.t
      t1 == IF ran THEN [t EXCEPT !.lastWriteTime = X.clock,
                                  !.postWriteInterval = t.initialPostWriteInterval]
            ELSE t
  IN [t1 EXCEPT !.dirtyChains = {},
                !.dirtyInsertAppend = {},
                !.chainToDataplaneHashes = StoreHashes(t),
                !.chainToFullRules = StoreFullRules(t)]

\* The part of applyUpdates after the transaction, run or skipped.
CommittedTable(X, ran) ==
  LET t == X.t
      t1 == IF ran THEN [t EXCEPT !.lastWriteTime = X.clock,
                                  !.postWriteInterval = t.initialPostWriteInterval]
            ELSE t
      dynamicMinPostWriteInterval == (t1.peakNftablesReadTime + peakNftablesWriteTime) * 2
      t2 == IF t1.postWriteInterval # 0
                 /\ t1.postWriteInterval < dynamicMinPostWriteInterval
            THEN [t1 EXCEPT !.postWriteInterval = dynamicMinPostWriteInterval]
            ELSE t1
      t3 == [t2 EXCEPT !.dirtyChains = {},
                       !.dirtyInsertAppend = {},
                       !.chainToDataplaneHashes = StoreHashes(t),
                       !.chainToFullRules = StoreFullRules(t)]
  IN t3

Committed(X, ran) ==
  Only({ loadDataplaneState(Y) :
         Y \in {[X EXCEPT !.t = CommittedTable(X, ran),
                          !.peak = X.t.peakNftablesReadTime]} })

\* A run that clears the dirty sets before it knows whether the
\* transaction went through.
RunBuilt_ClearsBeforeRun(X, tx) ==
  IF Len(tx) = 0 THEN Committed([X EXCEPT !.tx = tx], FALSE)
  ELSE IF X.wfail > 0
       THEN [X EXCEPT !.tx = tx, !.runs = @ + 1, !.events = Append(@, "run"),
                      !.wfail = @ - 1, !.err = TRUE,
                      !.t.dirtyChains = {}, !.t.dirtyInsertAppend = {}]
       ELSE Only({ IF ~r.ok
                   THEN [X EXCEPT !.tx = tx, !.runs = @ + 1,
                                  !.events = Append(@, "run"), !.err = TRUE]
                   ELSE Committed([X EXCEPT !.tx = tx, !.runs = @ + 1,
                                            !.events = Append(@, "run"),
                                            !.k = r.k, !.commits = @ + 1], TRUE) :
                   r \in {RunTx(X.k, tx, HandlesOf(X.t.chainToFullRules))} })

\* applyUpdates once the transaction tx is built: run it, unless it is empty.
RunBuilt(X, tx) ==
  IF Len(tx) = 0 THEN Committed([X EXCEPT !.tx = tx], FALSE)
  ELSE IF X.wfail > 0
       THEN [X EXCEPT !.tx = tx, !.runs = @ + 1, !.events = Append(@, "run"),
                      !.wfail = @ - 1, !.err = TRUE]
       ELSE Only({ IF ~r.ok
                   THEN [X EXCEPT !.tx = tx, !.runs = @ + 1,
                                  !.events = Append(@, "run"), !.err = TRUE]
                   ELSE Committed([X EXCEPT !.tx = tx, !.runs = @ + 1,
                                            !.events = Append(@, "run"),
                                            !.k = r.k, !.commits = @ + 1], TRUE) :
                   r \in {RunTx(X.k, tx, HandlesOf(X.t.chainToFullRules))} })

applyUpdates(X, ord) ==
  IF BuildPanics(X.t)
  THEN [X EXCEPT !.attempts = @ + 1, !.panic = TRUE, !.cause = "index"]
  ELSE Only({ RunBuilt([X EXCEPT !.attempts = @ + 1], tx) : tx \in {BuildTx(X.t, ord)} })

\* The retry loop of Apply.
RECURSIVE RetryLoop(_, _, _, _)
RECURSIVE Attempted(_, _, _, _)
\* A loop that goes round again after a transaction that succeeded.
Attempted_KeepGoing(X3, retries, backoffTime, ord) ==
  IF X3.panic THEN X3
  ELSE IF retries > 0
       THEN RetryLoop([X3 EXCEPT !.err = FALSE, !.clock = @ + backoffTime],
                      retries - 1, backoffTime * 2, ord)
       ELSE IF X3.err THEN [X3 EXCEPT !.panic = TRUE, !.cause = "write"] ELSE X3

\* A loop that gives up at the first transaction that fails.
Attempted_GiveUpAtOnce(X3, retries, backoffTime, ord) ==
  IF X3.panic THEN X3
  ELSE IF X3.err THEN [X3 EXCEPT !.panic = TRUE, !.cause = "write"]
  ELSE X3

\* One turn of the loop, from a table that is in sync: X3 is what
\* applyUpdates left.  Out of retries, the loop dumps the table with
\* "nft list table" for the log and panics.
Attempted(X3, retries, backoffTime, ord) ==
  IF X3.panic THEN X3
  ELSE IF X3.err
       THEN IF retries > 0
            THEN Only({ RetryLoop(Y, retries - 1, backoffTime * 2, ord) :
                        Y \in {[X3 EXCEPT !.err = FALSE, !.clock = @ + backoffTime]} })
            ELSE [X3 EXCEPT !.panic = TRUE, !.cause = "write",
                            !.events = Append(@, "diag")]
       ELSE X3

RetryLoop(X, retries, backoffTime, ord) ==
  Only({ IF X1.panic THEN X1
         ELSE Only({ Attempted(X3, retries, backoffTime, ord) :
                     X3 \in {applyUpdates([X1 EXCEPT !.events = Append(@, "alive")], ord)} }) :
         X1 \in {IF ~X.t.inSyncWithDataPlane THEN loadDataplaneState(X) ELSE X} })

\* for postWriteInterval != 0 && postWriteInterval < time.Hour && !now.Before(...)
RECURSIVE Doubled(_, _, _)
Doubled(interval, lastWrite, now) ==
  IF interval # 0 /\ interval < Hour /\ now >= lastWrite + interval
  THEN Doubled(interval * 2, lastWrite, now)
  ELSE interval

\* Checks that leave the refresh timer out.
Rechecked_NoRefreshTimer(t, now) ==
  LET interval == Doubled(t.postWriteInterval, t.lastWriteTime, now)
  IN IF interval # t.postWriteInterval
     THEN InvalidateDataplaneCacheT([t EXCEPT !.postWriteInterval = interval])
     ELSE t

\* The invalidation checks at the start of Apply.
Rechecked(t, now) ==
  LET lastReadToNow == now - t.lastReadTime
      t1 == IF t.refreshInterval > 0 /\ lastReadToNow > t.refreshInterval
            THEN InvalidateDataplaneCacheT(t) ELSE t
      interval == Doubled(t1.postWriteInterval, t1.lastWriteTime, now)
  IN IF interval # t1.postWriteInterval
     THEN InvalidateDataplaneCacheT([t1 EXCEPT !.postWriteInterval = interval])
     ELSE t1

\* A value that looks at the post-write interval alone.
RescheduleAfter_PostWriteOnly(t, now) ==
  LET postWriteReached == t.lastWriteTime + t.postWriteInterval - now
  IN IF t.postWriteInterval < Hour
     THEN IF postWriteReached <= 0 THEN 1 ELSE postWriteReached
     ELSE 0

\* A value without the floor of one millisecond.
RescheduleAfter_NoFloor(t, now) ==
  LET r0 == IF t.refreshInterval > 0
            THEN t.refreshInterval - (now - t.lastReadTime) ELSE 0
      postWriteReached == t.lastWriteTime + t.postWriteInterval - now
  IN IF t.postWriteInterval < Hour
     THEN IF t.refreshInterval <= 0 \/ postWriteReached < r0
          THEN postWriteReached ELSE r0
     ELSE r0

\* The value Apply returns.
RescheduleAfter(t, now) ==
  LET r0 == IF t.refreshInterval > 0
            THEN t.refreshInterval - (now - t.lastReadTime) ELSE 0
      postWriteReached == t.lastWriteTime + t.postWriteInterval - now
  IN IF t.postWriteInterval < Hour
     THEN IF postWriteReached <= 0 THEN 1
          ELSE IF t.refreshInterval <= 0 \/ postWriteReached < r0
               THEN postWriteReached ELSE r0
     ELSE r0

ApplyX(t, k, now, rfail, wfail, readDur, ord) ==
  Only({ RetryLoop(X, ApplyRetries, 1, ord) :
         X \in {Ctx(Rechecked(t, now), k, now, rfail, wfail, readDur)} })

Apply(rfail, wfail, readDur, ord) ==
  /\ ~crashed
  /\ \E X \in {ApplyX(Table, kernel, clock, rfail, wfail, readDur, ord)} :
       /\ last' = [Outcome("Apply", "", FALSE, Summary(last), ForeignSince(last)) EXCEPT
                   !.returned = ~X.panic,
                   !.cause = X.cause,
                   !.rescheduleAfter = IF X.panic THEN 0 ELSE RescheduleAfter(X.t, clock),
                   !.now = clock,
                   !.attempts = X.attempts, !.runs = X.runs, !.commits = X.commits,
                   !.reads = X.reads, !.tx = X.tx, !.events = X.events,
                   !.peak = X.peak]
       /\ kernel' = X.k
       /\ clock' = X.clock
       /\ crashed' = X.panic
       /\ IF X.panic THEN UNCHANGED tableVars ELSE SetTable(X.t)

\* NoopTable.Apply
NoopTableApply ==
  /\ ~crashed
  /\ last' = Outcome("NoopTable.Apply", "", FALSE, NoCall, ForeignSince(last))
  /\ UNCHANGED <<tableVars, kernel, clock, crashed>>

\* A transaction with the inserts last rule first.
InsertRulesNowTx_Reversed(chain, rules) ==
  LET hashes == CalculateRuleHashes(chain, rules)
      n == Len(rules)
  IN <<Op("add table", "", NoRule)>>
     \o [i \in 1..n |->
          Op("insert rule", chain,
             Render(rules[n + 1 - i], chain, commentFrag(hashes[n + 1 - i])))]

\* The transaction InsertRulesNow builds.
InsertRulesNowTx(chain, rules) ==
  LET hashes == CalculateRuleHashes(chain, rules)
  IN <<Op("add table", "", NoRule)>>
     \o [i \in 1..Len(rules) |->
          Op("insert rule", chain, Render(rules[i], chain, commentFrag(hashes[i])))]

\* InsertRulesNow: one run of the transaction; fails says that the kernel
\* fails the run for reasons of its own.
InsertRulesNow(chain, rules, fails) ==
  /\ ~crashed
  /\ \E tx \in {InsertRulesNowTx(chain, rules)} :
     \E r \in {IF fails THEN Failed(kernel)
                ELSE RunTx(kernel, tx, HandlesOf(chainToFullRules))} :
       /\ kernel' = r.k
       /\ last' = [Called("InsertRulesNow", chain, FALSE) EXCEPT
                   !.err = ~r.ok,
                   !.runs = 1,
                   !.commits = IF r.ok THEN 1 ELSE 0,
                   !.tx = tx,
                   !.events = <<"run">>]
  /\ UNCHANGED <<tableVars, clock, crashed>>

\* A scan that stops at the first rule whose hash is not in the chain.
RECURSIVE PresentRules_UntilMissing(_, _, _)
PresentRules_UntilMissing(rules, hashes, dpHashes) ==
  IF rules = <<>> THEN <<>>
  ELSE IF \E j \in 1..Len(dpHashes) : dpHashes[j] = Head(hashes)
       THEN <<Head(rules)>> \o PresentRules_UntilMissing(Tail(rules), Tail(hashes), dpHashes)
       ELSE <<>>

\* The loop of CheckRulesPresent: the rules whose hash is in dpHashesSet.
RECURSIVE PresentRules(_, _, _)
PresentRules(rules, hashes, dpHashes) ==
  IF rules = <<>> THEN <<>>
  ELSE (IF \E j \in 1..Len(dpHashes) : dpHashes[j] = Head(hashes)
        THEN <<Head(rules)>> ELSE <<>>)
       \o PresentRules(Tail(rules), Tail(hashes), dpHashes)

\* CheckRulesPresent: the next rfail reads of the kernel fail.
CheckRulesPresent(chain, rules, rfail, readDur) ==
  /\ ~crashed
  /\ \E X \in {getHashesAndRulesFromDataplane(
                  Ctx(Table, kernel, clock, rfail, 0, readDur), ReadRetries, 100)} :
       /\ last' = [Called("CheckRulesPresent", chain, FALSE) EXCEPT
                   !.returned = ~X.panic,
                   !.cause = X.cause,
                   !.reads = X.reads,
                   !.events = X.events,
                   !.rules = rules,
                   !.present = IF X.panic THEN <<>>
                               ELSE PresentRules(rules, CalculateRuleHashes(chain, rules),
                                                 Slice(ReadHashes(X.k), chain))]
       /\ clock' = X.clock
       /\ crashed' = X.panic
       /\ IF X.panic THEN UNCHANGED tableVars ELSE SetTable(X.t)
  /\ UNCHANGED kernel

\* ------------------------------------------------------------ environment

\* Time passes.
Tick(d) ==
  /\ ~crashed
  /\ clock + d <= MaxTime
  /\ clock' = clock + d
  /\ UNCHANGED <<tableVars, kernel, crashed, last>>

\* Another process writes to the table: it changes the chains cs, and leaves
\* the kernel holding k.
Foreign(cs, k) ==
  /\ ~crashed
  /\ kernel' = k
  /\ last' = Outcome("Foreign", "", FALSE, NoCall, ForeignSince(last) \cup cs)
  /\ UNCHANGED <<tableVars, clock, crashed>>

ForeignRule(c, h) ==
  [Chain |-> c, Rule |-> <<"log">>, Target |-> "", Comment |-> NilComment, Handle |-> h]

ForeignAddRule(c) ==
  /\ c \in DOMAIN kernel
  /\ Len(kernel[c]) < MaxRules
  /\ Foreign({c}, Put(kernel, c,
                    Append(kernel[c],
                           ForeignRule(c, FreshHandle(kernel, HandlesOf(chainToFullRules))))))

ForeignDeleteRule(c) ==
  /\ c \in DOMAIN kernel
  /\ \E i \in 1..Len(kernel[c]) : Foreign({c}, Put(kernel, c, RemoveAt(kernel[c], i)))

ForeignAlterRule(c) ==
  /\ c \in DOMAIN kernel
  /\ \E i \in 1..Len(kernel[c]) :
       /\ kernel[c][i].Rule # <<"log">>
       /\ Foreign({c}, Put(kernel, c,
                         [kernel[c] EXCEPT ![i] = ForeignRule(c, kernel[c][i].Handle)]))

\* The other process rewrites the comments of chain c: rule i gets, as its
\* whole comment, the hash in hashes[i].
ForeignTagRules(c, hashes) ==
  /\ c \in DOMAIN kernel
  /\ Len(kernel[c]) = Len(hashes)
  /\ Len(hashes) > 0
  /\ Foreign({c}, Put(kernel, c,
                    [i \in 1..Len(hashes) |->
                       [kernel[c][i] EXCEPT !.Comment = [nil |-> FALSE, s |-> hashes[i]]]]))

\* The other process deletes the whole table, and with it every chain.
ForeignDeleteTable ==
  /\ kernel # EmptyMap
  /\ Foreign(DOMAIN kernel, EmptyMap)

\* ------------------------------------------------------------------ inputs

Accept == MkRule("", "accept", "", <<>>)
AcceptC == MkRule("", "accept", "", << <<Lit("policy"), Colon, Lit("x")>> >>)
DropC == MkRule("ip saddr 10.0.0.1", "drop", "", << <<Lit("deny")>> >>)
Jump(c) == MkRule("", "jump " \o c, c, <<>>)
JumpC(c) == MkRule("", "jump " \o c, c, << <<Lit("to")>> >>)

\* Rule lists given to UpdateChain for a chain.
ChainMenu(c) ==
  IF c = "cali-a" THEN { <<AcceptC>>, <<Accept, Jump("cali-b")>> }
  ELSE { <<Accept>> }
\* Rule lists given to InsertOrAppendRules and to AppendRules.
InsertMenu == { <<>>, <<Jump("cali-a")>> }
AppendMenu == { <<DropC>> }
HookChains == {"PREROUTING"}

\* ---------------------------------------------------------- specifications

\* A new table on an empty kernel, refresh disabled, the clock standing still,
\* the kernel executing every transaction faithfully and nobody else writing
\* to it.
Init ==
  /\ clock = 0
  /\ kernel = EmptyMap
  /\ NewTable("insert", 0, 0)

Next ==
  \/ \E c \in OwnedChains : \E rs \in ChainMenu(c) : UpdateChain(c, rs)
  \/ \E c \in OwnedChains : RemoveChainByName(c)
  \/ \E c \in HookChains, rs \in InsertMenu : InsertOrAppendRules(c, rs)
  \/ \E c \in HookChains, rs \in AppendMenu : AppendRules(c, rs)
  \/ \E ord \in Orders : Apply(0, 0, 0, ord)

Spec == Init /\ [][Next]_vars

\* Mutation calls only, on a wider choice of chains and rules: chains that
\* jump to each other, and inserted rules for FOREIGN, a chain that is
\* neither owned nor a kernel base chain.
MutChainMenu(c) ==
  IF c = "cali-a" THEN { <<Accept>>, <<Jump("cali-b")>> }
  ELSE { <<Accept>>, <<Jump("cali-a")>> }
MutHookChains == {"PREROUTING", "FOREIGN"}
MutInsertMenu == { <<>>, <<Jump("cali-a")>>, <<Jump("FOREIGN")>> }
MutAppendMenu == { <<>>, <<Jump("cali-b")>> }

NextMut ==
  \/ \E c \in OwnedChains : \E rs \in MutChainMenu(c) : UpdateChain(c, rs)
  \/ \E c \in OwnedChains : RemoveChainByName(c)
  \/ \E c \in MutHookChains, rs \in MutInsertMenu : InsertOrAppendRules(c, rs)
  \/ \E c \in HookChains, rs \in MutAppendMenu : AppendRules(c, rs)

SpecMut == Init /\ [][NextMut]_vars

\* The kernel fails transaction runs for reasons of its own: the next wfail
\* runs of an Apply fail, whatever the transaction.  A retry sleeps, so the
\* clock moves; Apply meets such failures until the clock reaches MaxRetryTime.
WriteFailures == {2, ApplyRetries, ApplyRetries + 1}

NextRetry ==
  \/ \E c \in OwnedChains : \E rs \in ChainMenu(c) : UpdateChain(c, rs)
  \/ \E c \in HookChains, rs \in InsertMenu : InsertOrAppendRules(c, rs)
  \/ \E ord \in Orders : Apply(0, 0, 0, ord)
  \/ \E wfail \in WriteFailures : clock < MaxRetryTime /\ Apply(0, wfail, 0, "forward")

SpecRetry == Init /\ [][NextRetry]_vars

\* Time passes between the calls, and the table is configured with either
\* refresh interval and either post-write interval.
RefreshIntervals == {0, 90}
PostWriteIntervals == {0, Hour}
Ticks == {40, 100}

InitTime ==
  /\ clock = 0
  /\ kernel = EmptyMap
  /\ \E refresh \in RefreshIntervals, postWrite \in PostWriteIntervals :
       NewTable("insert", refresh, postWrite)

NextTime ==
  \/ \E c \in HookChains, rs \in InsertMenu : InsertOrAppendRules(c, rs)
  \/ \E d \in Ticks : Tick(d)
  \/ Apply(0, 0, 0, "forward")
  \/ NoopTableApply

SpecTime == InitTime /\ [][NextTime]_vars

\* Another process changes chains in the kernel between the calls.  The rule
\* lists given to UpdateChain keep the chain's length.
TamperMenu == { <<Accept>>, <<DropC>> }
TamperChains == {"cali-b"}

NextTamper ==
  \/ \E rs \in TamperMenu : UpdateChain("cali-b", rs)
  \/ \E c \in HookChains : InsertOrAppendRules(c, <<Jump("cali-b")>>)
  \/ InvalidateDataplaneCache
  \/ Apply(0, 0, 0, "forward")
  \/ \E c \in TamperChains : ForeignAddRule(c)
  \/ \E c \in TamperChains : ForeignDeleteRule(c)
  \/ \E c \in TamperChains : ForeignAlterRule(c)
  \/ ForeignDeleteTable

SpecTamper == Init /\ [][NextTamper]_vars

\* Chains that hand a reference on: PREROUTING jumps to cali-a, and cali-a
\* jumps to cali-b or does not.  Every rule list of a chain has one rule, so
\* that an update never shortens a chain the kernel holds.
LinkMenu(c) ==
  IF c = "cali-a" THEN { <<Accept>>, <<Jump("cali-b")>> }
  ELSE { <<Accept>>, <<DropC>> }

NextLink ==
  \/ \E c \in OwnedChains : \E rs \in LinkMenu(c) : UpdateChain(c, rs)
  \/ \E c \in OwnedChains : RemoveChainByName(c)
  \/ \E c \in HookChains, rs \in InsertMenu : InsertOrAppendRules(c, rs)
  \/ \E ord \in Orders : Apply(0, 0, 0, ord)

SpecLink == Init /\ [][NextLink]_vars

\* The caller names a kernel base chain in UpdateChain and
\* RemoveChainByName, as it does an owned chain.
NamedChains == {"PREROUTING", "cali-a"}

NextNamed ==
  \/ \E c \in NamedChains : UpdateChain(c, <<Accept>>)
  \/ \E c \in NamedChains : RemoveChainByName(c)
  \/ \E c \in HookChains, rs \in InsertMenu : InsertOrAppendRules(c, rs)
  \/ \E ord \in Orders : Apply(0, 0, 0, ord)

SpecNamed == Init /\ [][NextNamed]_vars

\* One owned chain that grows and changes, in a kernel where another process
\* keeps, as the comment of each rule of the chain, the hash the table computes
\* for that rule: the dataplane reader then reads back the hashes of the
\* desired rules.
IncrMenu == { <<Accept>>, <<Accept, AcceptC>>, <<Accept, DropC, AcceptC>> }

NextIncr ==
  \/ \E rs \in IncrMenu : UpdateChain("cali-a", rs)
  \/ \E c \in HookChains, rs \in InsertMenu : InsertOrAppendRules(c, rs)
  \/ \E ord \in Orders : Apply(0, 0, 0, ord)
  \/ /\ "cali-a" \in DOMAIN chainNameToChain
     /\ ForeignTagRules("cali-a", RuleHashes("cali-a", chainNameToChain["cali-a"]))

SpecIncr == Init /\ [][NextIncr]_vars

\* A hook chain with two inserted rules and an appended rule, in a kernel
\* where another process adds rules of its own to the chain.
HookMenu == { <<>>, <<Accept, AcceptC>> }

NextHook ==
  \/ \E c \in HookChains, rs \in HookMenu : InsertOrAppendRules(c, rs)
  \/ \E c \in HookChains, rs \in AppendMenu : AppendRules(c, rs)
  \/ \E ord \in Orders : Apply(0, 0, 0, ord)
  \/ \E c \in HookChains : ForeignAddRule(c)

SpecHook == Init /\ [][NextHook]_vars

\* InsertRulesNow between the other calls, on a chain the kernel may or may
\* not hold yet, with a kernel that may fail the run.
NowMenu == { <<Accept, AcceptC>>, <<DropC>> }

NextNow ==
  \/ \E c \in HookChains, rs \in InsertMenu : InsertOrAppendRules(c, rs)
  \/ UpdateChain("cali-a", <<Accept>>)
  \/ \E ord \in Orders : Apply(0, 0, 0, ord)
  \/ \E c \in HookChains, rs \in NowMenu, fails \in BOOLEAN :
       /\ Len(Slice(kernel, c)) + Len(rs) <= MaxChainLen
       /\ InsertRulesNow(c, rs, fails)

SpecNow == Init /\ [][NextNow]_vars

\* CheckRulesPresent between the other calls, on an owned chain whose rules
\* another process tags with the hashes the table computes, all of them or all
\* but the first; a read of the kernel may fail, once or every time, until
\* the first retry has moved the clock.
CheckMenu == { <<Accept, AcceptC>>, <<Accept, DropC>> }
ReadFailures == {0, 1, ReadRetries + 1}
TagMenu(hashes) ==
  {hashes} \cup (IF Len(hashes) > 1 THEN {[hashes EXCEPT ![1] = EmptyString]} ELSE {})

NextCheck ==
  \/ \E rs \in CheckMenu : UpdateChain("cali-a", rs)
  \/ \E c \in HookChains, rs \in InsertMenu : InsertOrAppendRules(c, rs)
  \/ Apply(0, 0, 0, "forward")
  \/ /\ "cali-a" \in DOMAIN chainNameToChain
     /\ \E hs \in TagMenu(RuleHashes("cali-a", chainNameToChain["cali-a"])) :
          ForeignTagRules("cali-a", hs)
  \/ \E rs \in CheckMenu, rfail \in ReadFailures :
       /\ rfail > 0 => clock = 0
       /\ CheckRulesPresent("cali-a", rs, rfail, 0)

SpecCheck == Init /\ [][NextCheck]_vars

\* A hook chain in a table of either insert mode, with up to two inserted
\* rules and up to one appended rule, in a kernel where another process adds
\* rules of its own to the chain.
InsertModes == {"insert", "append"}
LayoutMenu == { <<>>, <<AcceptC>>, <<Accept, AcceptC>> }
LayoutAppends == { <<>>, <<DropC>> }

InitLayout ==
  /\ clock = 0
  /\ kernel = EmptyMap
  /\ \E mode \in InsertModes : NewTable(mode, 0, 0)

NextLayout ==
  \/ \E c \in HookChains, rs \in LayoutMenu : InsertOrAppendRules(c, rs)
  \/ \E c \in HookChains, rs \in LayoutAppends : AppendRules(c, rs)
  \/ Apply(0, 0, 0, "forward")
  \/ \E c \in HookChains : ForeignAddRule(c)

SpecLayout == InitLayout /\ [][NextLayout]_vars

\* A hook chain with an inserted rule, an appended rule, both or neither, in
\* a kernel where another process adds rules of its own to the chain and
\* writes, as the comments of the chain's rules, the hashes the table expects
\* to read from a chain of that length.
MatchMenu == { <<>>, <<AcceptC>> }

ForeignTagExpected(c) ==
  /\ c \in DOMAIN kernel
  /\ \E n \in {Len(kernel[c]) - Len(Slice(chainToInsertedRules, c))
                               - Len(Slice(chainToAppendedRules, c))} :
       /\ n >= 0
       /\ ForeignTagRules(c, expectedHashesForInsertAppendChain(Table, c, n).all)

NextMatch ==
  \/ \E c \in HookChains, rs \in MatchMenu : InsertOrAppendRules(c, rs)
  \/ \E c \in HookChains, rs \in LayoutAppends : AppendRules(c, rs)
  \/ InvalidateDataplaneCache
  \/ Apply(0, 0, 0, "forward")
  \/ \E c \in HookChains : ForeignAddRule(c)
  \/ \E c \in HookChains : ForeignTagExpected(c)

SpecMatch == Init /\ [][NextMatch]_vars

\* The hook chain jumps to one owned chain or the other, so that one Apply
\* can meet a chain to create and a chain to delete.
SwitchMenu == { <<Jump("cali-a")>>, <<Jump("cali-b")>> }

NextSwitch ==
  \/ \E c \in OwnedChains : UpdateChain(c, <<Accept>>)
  \/ \E c \in HookChains, rs \in SwitchMenu : InsertOrAppendRules(c, rs)
  \/ \E ord \in Orders : Apply(0, 0, 0, ord)

SpecSwitch == Init /\ [][NextSwitch]_vars

\* Kernel reads take time, and the table is configured with a post-write
\* interval that is negative, zero, below the minimum or above it.
PostWriteConfigs == {0 - 10, 0, 70}
ReadDurations == {30, 40}
PeakTicks == {100}
PeakMenu == { <<>>, <<Accept>> }

InitPeak ==
  /\ clock = 0
  /\ kernel = EmptyMap
  /\ \E postWrite \in PostWriteConfigs : NewTable("insert", 0, postWrite)

NextPeak ==
  \/ \E c \in HookChains, rs \in PeakMenu : InsertOrAppendRules(c, rs)
  \/ \E d \in PeakTicks : Tick(d)
  \/ \E readDur \in ReadDurations :
       clock + 3 * readDur <= MaxTime /\ Apply(0, 0, readDur, "forward")

SpecPeak == InitPeak /\ [][NextPeak]_vars

\* Kernel reads and transaction runs fail for reasons of the kernel's own:
\* the next rfail reads and the next wfail runs of a call fail.  A call meets
\* such failures at time 0 only, since each retry sleeps.
AllReadFailures == 0..(ReadRetries + 1)
ApplyFailures == { <<0, 0>>, <<1, 2>>, <<ReadRetries + 1, 0>>, <<0, ApplyRetries + 1>> }
ReadMenu == { <<Accept, AcceptC>> }

NextRead ==
  \/ \E rs \in ReadMenu : UpdateChain("cali-a", rs)
  \/ \E c \in HookChains, rs \in InsertMenu : InsertOrAppendRules(c, rs)
  \/ \E f \in ApplyFailures :
       /\ f # <<0, 0>> => clock = 0
       /\ Apply(f[1], f[2], 0, "forward")
  \/ /\ "cali-a" \in DOMAIN chainNameToChain
     /\ \E hs \in TagMenu(RuleHashes("cali-a", chainNameToChain["cali-a"])) :
          ForeignTagRules("cali-a", hs)
  \/ \E rs \in ReadMenu, rfail \in AllReadFailures :
       /\ rfail > 0 => clock = 0
       /\ CheckRulesPresent("cali-a", rs, rfail, 0)

SpecRead == Init /\ [][NextRead]_vars

\* UpdateChain gives cali-a lists of two or three different rules out of
\* three, two of which differ in their comment only.
HashRules == {Accept, AcceptC, DropC}
HashMenu ==
  { rs \in { <<r1, r2>> : r1 \in HashRules, r2 \in HashRules }
            \cup { <<r1, r2, r3>> : r1 \in HashRules, r2 \in HashRules, r3 \in HashRules } :
      \A i \in 1..Len(rs) : \A j \in 1..Len(rs) : i # j => rs[i] # rs[j] }

NextHash ==
  \/ \E rs \in HashMenu : UpdateChain("cali-a", rs)
  \/ \E c \in HookChains, rs \in InsertMenu : InsertOrAppendRules(c, rs)
  \/ Apply(0, 0, 0, "forward")

SpecHash == Init /\ [][NextHash]_vars

\* ------------------------------------------------------------------ claims

\* The chains the desired state programs: in chainNameToChain with a
\* reference count of at least one.
Programmed == {c \in DOMAIN chainNameToChain :
                 c \in DOMAIN chainRefCounts /\ chainRefCounts[c] >= 1}

Targets(rules) == {rules[i].Target : i \in 1..Len(rules)} \ {""}

\* The desired state refers to no chain missing from chainNameToChain.
NoMissingReference ==
  /\ \A c \in Programmed : Targets(chainNameToChain[c]) \subseteq DOMAIN chainNameToChain
  /\ \A c \in DOMAIN chainToInsertedRules :
       Targets(chainToInsertedRules[c]) \subseteq DOMAIN chainNameToChain
  /\ \A c \in DOMAIN chainToAppendedRules :
       Targets(chainToAppendedRules[c]) \subseteq DOMAIN chainNameToChain

\* The kernel's owned chains are the programmed chains, each with its rules.
Parity ==
  /\ {c \in DOMAIN kernel : ourChainsRegexp(c)} = Programmed
  /\ \A c \in Programmed : KernelHolds(kernel, c, chainNameToChain[c])

\* C1: Convergence.  After an Apply that returned normally, on a desired
\* state that refers to no missing chain, the kernel's chains with the owned
\* prefix are exactly the chains of chainNameToChain with a reference count of
\* at least one, each holding exactly its desired rules in order.
C1_Convergence ==
  (last.op = "Apply" /\ last.returned /\ NoMissingReference) => Parity

\* An Apply returned with both owned chains programmed, cali-a with two rules,
\* after an earlier Apply had programmed something else.
C1_Witness ==
  /\ last.op = "Apply" /\ last.returned /\ NoMissingReference
  /\ Programmed = {"cali-a", "cali-b"}
  /\ Len(chainNameToChain["cali-a"]) = 2
  /\ \E i \in 1..Len(last.tx) : last.tx[i].op = "replace rule"
  /\ Parity

\* C2: Idempotent Apply.  An Apply that directly follows an Apply, with no
\* mutation call and no foreign kernel change in between, runs no transaction
\* against the kernel.
C2_IdempotentApply ==
  (last.op = "Apply" /\ last.returned /\ last.prev.op = "Apply" /\ last.prev.returned)
    => last.runs = 0

\* The operations a transaction holds on the rules of a chain.
RuleOpsOn(tx, c) ==
  {i \in 1..Len(tx) : tx[i].chain = c
                      /\ tx[i].op \in {"replace rule", "delete rule", "add rule"}}

\* C3: Counter preservation.  When UpdateChain passes again, for a referenced
\* chain the kernel holds, the rule list the kernel holds for it, the
\* transaction the next Apply builds has no replace-rule, delete-rule or
\* add-rule operation on that chain.
C3_CounterPreservation ==
  (last.op = "Apply" /\ last.prev.op = "UpdateChain" /\ last.prev.same)
    => RuleOpsOn(last.tx, last.prev.chain) = {}

\* C7: After an Apply that returned normally both dirty sets are empty and
\* chainToDataplaneHashes holds, for every programmed chain, the hashes of the
\* rules just committed.
C7_CleanAfterApply ==
  (last.op = "Apply" /\ last.returned)
    => /\ dirtyChains = {}
       /\ dirtyInsertAppend = {}
       /\ \A c \in Programmed :
            /\ c \in DOMAIN chainToDataplaneHashes
            /\ chainToDataplaneHashes[c] = RuleHashes(c, chainNameToChain[c])

\* C5: Refcount closure.  After any sequence of mutation calls, every chain
\* named by a rule of a chain of chainNameToChain with a reference count of
\* at least one is in chainRefCounts with a count of at least one.
C5_RefcountClosure ==
  \A c \in Programmed :
    \A target \in Targets(chainNameToChain[c]) :
      target \in DOMAIN chainRefCounts /\ chainRefCounts[target] >= 1

\* C6: Refcount positivity.  Every value stored in chainRefCounts is a
\* positive integer.
C6_RefcountPositive ==
  \A c \in DOMAIN chainRefCounts : chainRefCounts[c] >= 1

\* The Apply read the kernel before it built its first transaction.
Resynced == Len(last.events) >= 2 /\ last.events[2] = "read"

\* C4: Recovery from tampering.  When another process has changed owned
\* chains in the kernel since the Apply before, an Apply that reads the
\* kernel returns normally and leaves the kernel's owned chains equal to the
\* desired state.
C4_RecoveryFromTampering ==
  (last.op = "Apply" /\ last.foreign # {} /\ Resynced /\ NoMissingReference)
    => (last.returned /\ Parity)

\* C8: An Apply commits at most one transaction, and the transaction that
\* succeeds is the last thing its retry loop runs.
C8_AtMostOneTransaction ==
  last.op = "Apply" =>
    /\ last.commits <= 1
    /\ last.commits = 1 =>
         /\ last.returned
         /\ last.runs = last.attempts
         /\ Len(SelectSeq(last.events, LAMBDA e : e = "run")) = last.runs
    /\ last.returned => last.commits = 1

\* An Apply committed its transaction at the third run, after two that failed.
C8_Witness ==
  last.op = "Apply" /\ last.returned /\ last.commits = 1 /\ last.runs = 3

\* C9 as stated: every Apply that returns normally returns a strictly
\* positive duration.
C9_StrictlyPositive ==
  (last.op = "Apply" /\ last.returned) => last.rescheduleAfter > 0

\* C9, amended: an Apply that returns normally returns a duration that is
\* never negative, and is zero exactly when the refresh interval is disabled
\* and the post-write interval is an hour or more; NoopTable.Apply returns
\* zero.
C9_RescheduleAfter ==
  /\ (last.op = "Apply" /\ last.returned) =>
       /\ last.rescheduleAfter >= 0
       /\ last.rescheduleAfter = 0 <=> (refreshInterval <= 0 /\ postWriteInterval >= Hour)
  /\ last.op = "NoopTable.Apply" => last.rescheduleAfter = 0

\* An Apply called after time has passed returned zero: no refresh interval,
\* and a post-write interval of an hour.
C9_Witness ==
  /\ last.op = "Apply" /\ last.returned
  /\ last.rescheduleAfter = 0
  /\ refreshInterval = 0 /\ postWriteInterval >= Hour
  /\ last.now > 0

\* C10 as stated: applyUpdates is attempted at most 10 times in one Apply.
C10_AtMostTenAttempts ==
  last.op = "Apply" => last.attempts <= 10

\* C10, amended: applyUpdates is attempted at most 11 times in one Apply, once
\* and then on up to 10 retries; an Apply gives up on failing transactions
\* only after 11 of them; and an Apply that returns normally has committed
\* exactly one transaction, after at most 10 that failed.
C10_BoundedRetries ==
  last.op = "Apply" =>
    /\ last.attempts <= ApplyRetries + 1
    /\ (~last.returned /\ last.cause = "write") =>
         (last.runs = ApplyRetries + 1 /\ last.commits = 0)
    /\ last.returned => (last.commits = 1 /\ last.runs - 1 <= ApplyRetries)

\* An Apply returned normally at its eleventh attempt.
C10_Witness ==
  /\ last.op = "Apply" /\ last.returned
  /\ last.attempts = 11 /\ last.runs = 11 /\ last.commits = 1

\* Chain p2 has lost its last reference: it is dirty, and no longer counted.
Collected(p2) == p2 \in dirtyChains /\ p2 \notin DOMAIN chainRefCounts

\* No rule of the desired state, as it is after the step, names chain p2.
Unnamed(p2) ==
  /\ \A c \in DOMAIN chainNameToChain' : p2 \notin Targets(chainNameToChain'[c])
  /\ \A c \in DOMAIN chainToInsertedRules' : p2 \notin Targets(chainToInsertedRules'[c])
  /\ \A c \in DOMAIN chainToAppendedRules' : p2 \notin Targets(chainToAppendedRules'[c])

\* A rule of base chain b jumps to p1, a rule of p1 jumps to p2, and p1 and
\* p2 are programmed.
Linked(b, p1, p2) ==
  /\ p1 \in Targets(Slice(chainToInsertedRules, b) \o Slice(chainToAppendedRules, b))
  /\ p1 \in Programmed /\ p2 \in Programmed
  /\ p2 \in Targets(chainNameToChain[p1])

\* C11: Transitive dead-chain collection.  When a base chain jumps to p1, p1
\* jumps to p2, both are programmed, and UpdateChain gives p1 rules after
\* which no rule names p2, then p2's reference count is removed and p2 is in
\* dirtyChains; and an Apply that returns normally while p2 is in that state
\* leaves the kernel without chain p2, having deleted it if it was there.
C11_DeadChainCollection ==
  [][\A p1 \in OwnedChains : \A p2 \in OwnedChains \ {p1} :
       /\ ( /\ \E b \in BaseChains : Linked(b, p1, p2)
            /\ last'.op = "UpdateChain" /\ last'.chain = p1 /\ last'.returned
            /\ Unnamed(p2) )
            => ( /\ p2 \notin DOMAIN chainRefCounts'
                 /\ p2 \in dirtyChains' )
       /\ ( /\ Collected(p2)
            /\ last'.op = "Apply" /\ last'.returned )
            => ( /\ p2 \notin DOMAIN kernel'
                 /\ p2 \in DOMAIN kernel =>
                      \E i \in 1..Len(last'.tx) :
                        last'.tx[i] = Op("delete chain", p2, NoRule) )
    ]_vars

\* PREROUTING jumped to cali-a and cali-a to cali-b, all in the kernel;
\* UpdateChain took the jump out of cali-a, and the Apply after it returned
\* with cali-b deleted from the kernel and cali-a still programmed.
C11_Witness ==
  /\ last.op = "Apply" /\ last.returned
  /\ last.prev.op = "UpdateChain" /\ last.prev.chain = "cali-a"
  /\ \E i \in 1..Len(last.tx) : last.tx[i] = Op("delete chain", "cali-b", NoRule)
  /\ "cali-b" \in DOMAIN chainNameToChain
  /\ "cali-b" \notin DOMAIN chainRefCounts
  /\ "cali-b" \notin DOMAIN kernel
  /\ "cali-a" \in Programmed /\ KernelHolds(kernel, "cali-a", <<Accept>>)

\* Every rule the desired state holds for chain c: inserted, appended, own.
RulesOf(c) ==
  Slice(chainToInsertedRules, c) \o Slice(chainToAppendedRules, c)
    \o Slice(chainNameToChain, c)

RECURSIVE ReachFrom(_, _)
ReachFrom(S, n) ==
  IF n = 0 THEN S
  ELSE ReachFrom(S \cup UNION {Targets(RulesOf(c)) : c \in S}, n - 1)

\* The chains a packet can reach from a base chain of the table.
Reachable == ReachFrom(BaseChains, Cardinality(AllChains))

\* The operations of a transaction that create a chain or write a rule.
Programs(o) == o.op \in {"add chain", "add rule", "insert rule", "replace rule"}

Acyclic ==
  \A c \in AllChains : c \notin ReachFrom(Targets(RulesOf(c)), Cardinality(AllChains))

\* The same desired state built up by other calls, in another order: from a
\* new table, UpdateChain for every chain of chainNameToChain, then
\* InsertOrAppendRules and AppendRules for every chain that has such rules,
\* the chains taken in the order of ChainOrder.
RECURSIVE UpdateEach(_, _)
UpdateEach(t, names) ==
  IF names = <<>> THEN t
  ELSE UpdateEach(UpdateChainT(t, Head(names), chainNameToChain[Head(names)]), Tail(names))

RECURSIVE InsertEach(_, _)
InsertEach(t, names) ==
  IF names = <<>> THEN t
  ELSE InsertEach(InsertOrAppendRulesT(t, Head(names), chainToInsertedRules[Head(names)]),
                  Tail(names))

RECURSIVE AppendEach(_, _)
AppendEach(t, names) ==
  IF names = <<>> THEN t
  ELSE AppendEach(AppendRulesT(t, Head(names), chainToAppendedRules[Head(names)]),
                  Tail(names))

Replayed ==
  LET t0 == [Table EXCEPT !.chainToInsertedRules = [c \in BaseChains |-> <<>>],
                          !.chainToAppendedRules = [c \in BaseChains |-> <<>>],
                          !.dirtyInsertAppend = BaseChains,
                          !.chainNameToChain = EmptyMap,
                          !.chainRefCounts = [c \in BaseChains |-> 1],
                          !.dirtyChains = {},
                          !.inSyncWithDataPlane = FALSE]
      t1 == UpdateEach(t0, Iter(DOMAIN chainNameToChain, "forward"))
      t2 == InsertEach(t1, Iter(DOMAIN chainToInsertedRules, "forward"))
  IN AppendEach(t2, Iter(DOMAIN chainToAppendedRules, "forward"))

\* C13: Order independence of mutations.  The reference counts that a
\* sequence of mutation calls leaves are those that any other sequence of
\* calls leaves that ends in the same desired state, when that state has no
\* cycle and no reference to a missing chain.
C13_OrderIndependence ==
  (last.returned /\ Acyclic /\ NoMissingReference)
    => chainRefCounts = Replayed.chainRefCounts

\* C14: Kernel base chains are permanent.  The reference count of a base
\* chain is never below one, and no transaction built by Apply holds a
\* delete-chain operation for a base chain.
C14_BaseChainsPermanent ==
  /\ \A b \in BaseChains : Count(chainRefCounts, b) >= 1
  /\ last.op = "Apply" =>
       \A i \in 1..Len(last.tx) :
         ~(last.tx[i].op = "delete chain" /\ last.tx[i].chain \in BaseChains)

\* The operations of transaction tx that write, replace or delete a rule of
\* chain c, in the order of the transaction.
RuleOpsSeq(tx, c) ==
  SelectSeq(tx, LAMBDA o : o.chain = c
                           /\ o.op \in {"replace rule", "delete rule", "add rule",
                                        "insert rule", "flush chain"})

\* What the update of chain c to rules must hold, given the rules the kernel
\* table k holds for c: prev are the fingerprints observed in k, curr those of
\* rules.
IncrementalOps(k, c, rules) ==
  LET prev == [i \in 1..Len(k[c]) |-> HashOfRule(k[c][i])]
      curr == RuleHashes(c, rules)
      rendered(i) == Render(rules[i], c, commentFrag(curr[i]))
  IN Concat([i \in 1..Len(curr) |->
       IF i <= Len(prev)
       THEN IF prev[i] = curr[i] THEN <<>>
            ELSE <<Op("replace rule", c, [rendered(i) EXCEPT !.Handle = k[c][i].Handle])>>
       ELSE <<Op("add rule", c, rendered(i))>>])

\* C15: Incremental update.  When UpdateChain gives new rules for a programmed
\* owned chain that the kernel holds with no more rules than the new list,
\* the transaction of the next Apply holds for that chain exactly: a replace,
\* at the handle of the observed rule, for each index whose observed and new
\* fingerprints differ; an add for each index the new list alone has; and
\* nothing for an index whose observed and new fingerprints are equal.
C15_IncrementalUpdate ==
  [][\A c \in OwnedChains :
       ( /\ last.op = "UpdateChain" /\ last.chain = c /\ last.returned
         /\ c \in Programmed
         /\ c \in DOMAIN kernel
         /\ Len(kernel[c]) <= Len(chainNameToChain[c])
         /\ last'.op = "Apply" /\ last'.attempts >= 1 /\ last'.cause # "index" )
         => RuleOpsSeq(last'.tx, c) = IncrementalOps(kernel, c, chainNameToChain[c])
    ]_vars

\* The kernel held [accept, accept /*policy:x*/] for cali-a with the
\* fingerprints of these rules as comments; UpdateChain gave three rules,
\* the first unchanged; the Apply after it replaced the second rule, added
\* the third and left the first alone.
C15_Witness ==
  /\ last.op = "Apply" /\ last.returned
  /\ last.prev.op = "UpdateChain" /\ last.prev.chain = "cali-a"
  /\ Has(chainNameToChain, "cali-a")
  /\ chainNameToChain["cali-a"] = <<Accept, DropC, AcceptC>>
  /\ Len(RuleOpsSeq(last.tx, "cali-a")) = 2
  /\ RuleOpsSeq(last.tx, "cali-a")[1].op = "replace rule"
  /\ RuleOpsSeq(last.tx, "cali-a")[1].rule.Rule = <<"ip saddr 10.0.0.1", "drop">>
  /\ RuleOpsSeq(last.tx, "cali-a")[2].op = "add rule"
  /\ Len(kernel["cali-a"]) = 3

\* The fingerprints observed in kernel table k for chain h.
Observed(k, h) == IF h \in DOMAIN k THEN [i \in 1..Len(k[h]) |-> HashOfRule(k[h][i])] ELSE <<>>

\* The fingerprints observed for hook chain h are not the expected ones.
ObservedDiffers(h) ==
  ~DeepEqualSlice(TRUE,
       expectedHashesForInsertAppendChain(Table, h, numEmptyStrings(Observed(kernel, h))).all,
       h \in DOMAIN kernel, Observed(kernel, h))

\* The inserted and the appended rules of hook chain h as the kernel holds
\* them once written, handles aside.
HookRules(h) ==
  LET ins == Slice(chainToInsertedRules, h)
      app == Slice(chainToAppendedRules, h)
  IN [i \in 1..Len(ins) |->
        Render(ins[i], h, commentFrag(CalculateRuleHashes(h, ins)[i]))]
     \o [i \in 1..Len(app) |->
        Render(app[i], h, commentFrag(CalculateRuleHashes(h \o "*appends*", app)[i]))]

\* C16: Hook chain in insert mode.  When a hook chain is dirty and the
\* fingerprints observed for it differ from the expected ones, the
\* transaction of Apply holds for it a flush, then an insert for each inserted
\* rule in reverse declared order, then an add for each appended rule in
\* declared order; and when Apply returns the kernel chain holds the inserted
\* rules in declared order, then the appended rules in declared order, and
\* nothing else.
C16_HookChainInsertMode ==
  [][\A h \in BaseChains :
       ( /\ insertMode = "insert"
         /\ h \in dirtyInsertAppend
         /\ ObservedDiffers(h)
         /\ last'.op = "Apply" /\ last'.attempts >= 1 /\ last'.cause # "index" )
         => LET ins == Slice(chainToInsertedRules, h)
                app == Slice(chainToAppendedRules, h)
                n == Len(ins)
                ops == RuleOpsSeq(last'.tx, h)
            IN /\ Len(ops) = 1 + n + Len(app)
               /\ ops[1] = Op("flush chain", h, NoRule)
               /\ \A j \in 1..n :
                    ops[1 + j] = Op("insert rule", h, HookRules(h)[n + 1 - j])
               /\ \A j \in 1..Len(app) :
                    ops[1 + n + j] = Op("add rule", h, HookRules(h)[n + j])
               /\ last'.returned =>
                    /\ h \in DOMAIN kernel'
                    /\ [i \in 1..Len(kernel'[h]) |-> [kernel'[h][i] EXCEPT !.Handle = 0]]
                         = HookRules(h)
    ]_vars

\* Another process had put a rule in PREROUTING; the Apply after it flushed
\* the chain and wrote two inserted rules and an appended one, and the kernel
\* holds them in declared order, without the foreign rule.
C16_Witness ==
  /\ last.op = "Apply" /\ last.returned
  /\ "PREROUTING" \in last.foreign
  /\ chainToInsertedRules["PREROUTING"] = <<Accept, AcceptC>>
  /\ chainToAppendedRules["PREROUTING"] = <<DropC>>
  /\ Len(RuleOpsSeq(last.tx, "PREROUTING")) = 4
  /\ RuleOpsSeq(last.tx, "PREROUTING")[2].op = "insert rule"
  /\ RuleOpsSeq(last.tx, "PREROUTING")[2].rule.Comment.nil = FALSE
  /\ [i \in 1..Len(kernel["PREROUTING"]) |-> kernel["PREROUTING"][i].Rule]
       = << <<"accept">>, <<"accept">>, <<"ip saddr 10.0.0.1", "drop">> >>
  /\ kernel["PREROUTING"][1].Comment.nil

\* The operations that write a rule.
WritesRule(o) == o.op \in {"add rule", "insert rule", "replace rule"}

ElemsOf(sq) == {sq[i] : i \in 1..Len(sq)}

\* The fingerprints of the rules the desired state holds for chain c.
Fingerprints(c) ==
  ElemsOf(RuleHashes(c, Slice(chainNameToChain, c)))
    \cup ElemsOf(CalculateRuleHashes(c, Slice(chainToInsertedRules, c)))
    \cup ElemsOf(CalculateRuleHashes(c \o "*appends*", Slice(chainToAppendedRules, c)))

\* The rule that operation o writes carries a comment that begins with the
\* hash prefix followed at once by a fingerprint of its chain.
CarriesFingerprint(o) ==
  /\ ~o.rule.Comment.nil
  /\ \E h \in Fingerprints(o.chain) : HasPrefix(o.rule.Comment.s, commentFrag(h))

\* C17: Every rule that Apply writes, by add, insert or replace, carries a
\* comment that begins with the hash prefix followed at once by the rule's
\* fingerprint, whether or not the rule has comment lines of its own.
C17_WrittenRulesCarryFingerprint ==
  last.op = "Apply" =>
    \A i \in 1..Len(last.tx) : WritesRule(last.tx[i]) => CarriesFingerprint(last.tx[i])

\* C18: Fingerprint round trip.  From the comment the writer renders for a
\* rule with fingerprint h, the dataplane reader extracts exactly h; a rule
\* without a comment is read as the empty string.
C18_FingerprintRoundTrip ==
  last.op = "Apply" =>
    \A i \in 1..Len(last.tx) :
      WritesRule(last.tx[i]) =>
        IF last.tx[i].rule.Comment.nil
        THEN HashOfRule(last.tx[i].rule) = EmptyString
        ELSE \E h \in Fingerprints(last.tx[i].chain) :
               /\ HasPrefix(last.tx[i].rule.Comment.s, commentFrag(h))
               /\ HashOfRule(last.tx[i].rule) = h

\* The calls that change the desired state or invalidate the cache.
MutationOps == {"UpdateChain", "RemoveChainByName", "InsertOrAppendRules",
                "AppendRules", "InvalidateDataplaneCache"}

\* Position of the first event e in events, 0 if there is none.
FirstEvent(events, e) ==
  IF \E i \in 1..Len(events) : events[i] = e
  THEN CHOOSE i \in 1..Len(events) :
         events[i] = e /\ \A j \in 1..(i - 1) : events[j] # e
  ELSE 0

\* C19: Read before write.  A call of InvalidateDataplaneCache, and a
\* mutation call that adds a chain to dirtyChains or dirtyInsertAppend, leaves
\* the table marked out of sync with the dataplane; no mutation call marks it
\* in sync again; and an Apply that finds the table so marked reads the
\* dataplane before it runs its first transaction.
C19_ReadBeforeWrite ==
  [][ /\ (last'.op \in MutationOps /\ last'.returned) =>
           /\ ( \/ last'.op = "InvalidateDataplaneCache"
                \/ ~(dirtyChains' \subseteq dirtyChains)
                \/ ~(dirtyInsertAppend' \subseteq dirtyInsertAppend) )
                => ~inSyncWithDataPlane'
           /\ ~inSyncWithDataPlane => ~inSyncWithDataPlane'
      /\ (last'.op = "Apply" /\ ~inSyncWithDataPlane) =>
           /\ FirstEvent(last'.events, "read") > 0
           /\ last'.runs > 0 =>
                /\ last'.reads > 0
                /\ FirstEvent(last'.events, "read") < FirstEvent(last'.events, "run")
    ]_vars

\* InvalidateDataplaneCache was called after an Apply had left the table in
\* sync; the Apply after it read the dataplane, then ran its transaction.
C19_Witness ==
  /\ last.op = "Apply" /\ last.returned
  /\ last.prev.op = "InvalidateDataplaneCache"
  /\ last.reads >= 1 /\ last.runs = 1
  /\ last.events[2] = "read"

\* C20: InsertRulesNow builds one transaction with one insert for each rule
\* given, in the order given, and runs it exactly once; when the run fails it
\* returns the error and the kernel is as it was; when the run succeeds the
\* rules are in the kernel chain; and in both cases every field of the
\* table, caches and dirty sets included, is as it was before the call.
C20_InsertRulesNow ==
  [][last'.op = "InsertRulesNow" =>
       /\ \E rs \in NowMenu :
            /\ Len(last'.tx) = 1 + Len(rs)
            /\ last'.tx[1] = Op("add table", "", NoRule)
            /\ \A i \in 1..Len(rs) :
                 last'.tx[1 + i] =
                   Op("insert rule", last'.chain,
                      Render(rs[i], last'.chain,
                             commentFrag(CalculateRuleHashes(last'.chain, rs)[i])))
            /\ ~last'.err =>
                 /\ last'.chain \in DOMAIN kernel
                 /\ Len(kernel'[last'.chain]) = Len(kernel[last'.chain]) + Len(rs)
                 /\ \A i \in 1..Len(rs) :
                      kernel'[last'.chain][Len(rs) + 1 - i].Rule = renderInner(rs[i], <<>>, "")
       /\ last'.runs = 1 /\ last'.returned
       /\ last'.err => (kernel' = kernel /\ last'.commits = 0)
       /\ UNCHANGED <<chainNameToChain, chainToInsertedRules, chainToAppendedRules,
                      chainRefCounts, dirtyChains, dirtyInsertAppend,
                      chainToDataplaneHashes, chainToFullRules, inSyncWithDataPlane>>
    ]_vars

\* InsertRulesNow ran a transaction of two inserts on a table that an Apply
\* had left in sync, and the kernel failed it: the error came back after one
\* run.
C20_Witness ==
  /\ last.op = "InsertRulesNow" /\ last.err
  /\ last.runs = 1 /\ Len(last.tx) = 3
  /\ inSyncWithDataPlane
  /\ "PREROUTING" \in DOMAIN kernel

\* The rules at the indexes of keep, in their order, from index i on.
RECURSIVE Pick(_, _, _)
Pick(rules, keep, i) ==
  IF i > Len(rules) THEN <<>>
  ELSE (IF i \in keep THEN <<rules[i]>> ELSE <<>>) \o Pick(rules, keep, i + 1)

\* C21: a CheckRulesPresent(chain, rules) that returns has returned the
\* given rules, in their order, whose expected fingerprint is among the
\* fingerprints the kernel's chain reads as; it has read the kernel once, has
\* run no transaction and left the kernel, the desired-state cache, the dirty
\* sets, chainToDataplaneHashes and inSyncWithDataPlane as they were.
C21_CheckRulesPresent ==
  [][last'.op = "CheckRulesPresent" /\ last'.returned
       => /\ LET expected == RuleHashes(last'.chain, last'.rules)
                 read == ElemsOf(Observed(kernel, last'.chain))
             IN last'.present
                  = Pick(last'.rules, {i \in 1..Len(expected) : expected[i] \in read}, 1)
          /\ last'.reads = 1
          /\ last'.runs = 0
          /\ last'.tx = <<>>
          /\ UNCHANGED <<kernel, chainNameToChain, chainRefCounts, chainToInsertedRules,
                         chainToAppendedRules, dirtyChains, dirtyInsertAppend,
                         chainToDataplaneHashes, inSyncWithDataPlane>>]_vars

\* A check of two rules returned the second alone, after a read that failed once.
C21_Witness ==
  /\ last.op = "CheckRulesPresent"
  /\ last.returned
  /\ last.rules = <<Accept, AcceptC>>
  /\ last.present = <<AcceptC>>
  /\ Len(last.events) = 4

\* C22: after any sequence of UpdateChain, InsertOrAppendRules and
\* AppendRules calls the references of the cached desired state form no
\* cycle, and every chain no base chain reaches has no reference count.
C22_CyclesRejected ==
  /\ Acyclic
  /\ \A c \in AllChains \ Reachable : Count(chainRefCounts, c) = 0

\* Nothing is waiting to be written: both dirty sets are empty.
Quiet == dirtyChains = {} /\ dirtyInsertAppend = {}

\* The post-write recheck is due: the interval is running and has elapsed.
PostWriteDue ==
  /\ postWriteInterval # 0
  /\ postWriteInterval < Hour
  /\ clock >= lastWriteTime + postWriteInterval

\* The step is an Apply that returns: last records a call made at the time
\* of the step, and the step is not time passing after such a call.
Applied ==
  /\ last'.op = "Apply" /\ last'.returned
  /\ last'.now = clock
  /\ last' # last \/ clock' = clock

\* C23: an Apply called when nothing is waiting to be written and the
\* post-write recheck is due re-reads the kernel and leaves the post-write
\* interval at least doubled, counted from the same write as before; so the
\* rechecks after one write are spaced at doubling intervals, and end when
\* the interval reaches an hour.
C23_ExponentialRechecks ==
  [][(Applied /\ Quiet /\ PostWriteDue)
       => /\ last'.reads >= 1
          /\ lastWriteTime' = lastWriteTime
          /\ postWriteInterval' >= 2 * postWriteInterval]_vars

\* C24: with a refresh interval set, an Apply called more than that interval
\* after the last read of the dataplane reads the dataplane before it runs a
\* transaction, whether or not anything is dirty; with no refresh interval,
\* an Apply that finds the table in sync and no post-write recheck due runs
\* its transaction without reading the dataplane first, however long ago the
\* last read was.
C24_RefreshCadence ==
  [][Applied =>
       /\ (refreshInterval > 0 /\ clock - lastReadTime > refreshInterval) =>
            /\ FirstEvent(last'.events, "read") > 0
            /\ FirstEvent(last'.events, "read") < FirstEvent(last'.events, "run")
            /\ lastReadTime' >= clock
       /\ (refreshInterval = 0 /\ inSyncWithDataPlane /\ ~PostWriteDue) =>
            FirstEvent(last'.events, "run") < FirstEvent(last'.events, "read")
    ]_vars

\* Two Applies with nothing between them but time, more than the refresh
\* interval of 90 ms: the second found nothing dirty and no post-write
\* recheck due, and read the dataplane before it ran its transaction.
C24_Witness ==
  /\ last.op = "Apply" /\ last.returned
  /\ last.prev.op = "Apply"
  /\ refreshInterval = 90 /\ postWriteInterval >= Hour
  /\ last.now >= 100
  /\ last.events[2] = "read"
  /\ FirstEvent(last.events, "run") > 2

\* Owned chain c is about to shrink: it is dirty, its desired state is
\* present, the table will read the kernel, and the kernel holds more rules
\* for it than the desired state has.
Shrinking(c) ==
  /\ c \in dirtyChains
  /\ c \in Programmed
  /\ ~inSyncWithDataPlane
  /\ c \in DOMAIN kernel
  /\ Len(kernel[c]) > Len(chainNameToChain[c])

\* C25: an Apply that finds an owned chain about to shrink returns, and
\* its transaction deletes, by its handle, every rule the kernel holds beyond
\* the desired length.
C25_ShrinkDeletesByHandle ==
  [][\A c \in OwnedChains :
       (last'.op = "Apply" /\ last' # last /\ Shrinking(c))
         => /\ last'.returned
            /\ \A i \in (Len(chainNameToChain[c]) + 1)..Len(kernel[c]) :
                 \E j \in 1..Len(last'.tx) :
                   /\ last'.tx[j].op = "delete rule"
                   /\ last'.tx[j].chain = c
                   /\ last'.tx[j].rule.Handle = kernel[c][i].Handle]_vars

\* The rule list a call of op replaces or sets for chain p, in table maps m
\* (chainNameToChain), ins (chainToInsertedRules) and app
\* (chainToAppendedRules).
RulesFor(op, p, m, ins, app) ==
  IF op = "UpdateChain" THEN Slice(m, p)
  ELSE IF op = "InsertOrAppendRules" THEN Slice(ins, p)
  ELSE Slice(app, p)

\* C26: when UpdateChain, InsertOrAppendRules or AppendRules replaces the
\* rules of a referenced chain and the old and the new rules both jump to
\* another chain C, the reference count of C is at least one before and after
\* the call (the increments come first, so it is never lower in between) and
\* the call does not add C to dirtyChains.
C26_IncrementBeforeDecrement ==
  [][\A C \in AllChains :
       ( /\ last'.op \in {"UpdateChain", "InsertOrAppendRules", "AppendRules"}
         /\ last'.returned
         /\ Count(chainRefCounts, last'.chain) > 0
         /\ C # last'.chain
         /\ C \in Targets(RulesFor(last'.op, last'.chain, chainNameToChain,
                                   chainToInsertedRules, chainToAppendedRules))
         /\ C \in Targets(RulesFor(last'.op, last'.chain, chainNameToChain',
                                   chainToInsertedRules', chainToAppendedRules')) )
       => /\ Count(chainRefCounts, C) >= 1
          /\ Count(chainRefCounts', C) >= 1
          /\ C \in dirtyChains' => C \in dirtyChains]_vars

\* n empty strings.
Blanks(n) == [i \in 1..n |-> EmptyString]

\* C27: for a hook chain with k inserted and m appended rules and any number
\* n of foreign rules, the expected hashes have length k + m + n and are, in
\* insert mode, the inserted hashes, n empty strings and the appended hashes,
\* and in append mode n empty strings, the inserted hashes and the appended
\* hashes.
C27_ExpectedHashesLayout ==
  \A h \in HookChains : \A n \in 0..MaxForeign :
    LET ins == Slice(chainToInsertedRules, h)
        app == Slice(chainToAppendedRules, h)
        insHashes == CalculateRuleHashes(h, ins)
        appHashes == CalculateRuleHashes(h \o "*appends*", app)
        e == expectedHashesForInsertAppendChain(Table, h, n)
    IN /\ Len(e.all) = Len(ins) + Len(app) + n
       /\ insertMode = "insert" => e.all = insHashes \o Blanks(n) \o appHashes
       /\ insertMode = "append" => e.all = Blanks(n) \o insHashes \o appHashes
       /\ insertMode \in InsertModes

\* In append mode, an Apply found PREROUTING holding a rule of another
\* process, with two rules to insert and one to append.
C27_Witness ==
  /\ last.op = "Apply" /\ last.returned
  /\ insertMode = "append"
  /\ "PREROUTING" \in last.foreign
  /\ Len(Slice(chainToInsertedRules, "PREROUTING")) = 2
  /\ Len(Slice(chainToAppendedRules, "PREROUTING")) = 1
  /\ \E i \in 1..Len(last.tx) : last.tx[i].op = "flush chain"

\* The hashes read from hook chain h of the kernel are the hashes the table
\* expects for the number of foreign rules among them.
HookMatches(h) ==
  /\ h \in DOMAIN kernel
  /\ Observed(kernel, h)
       = expectedHashesForInsertAppendChain(
           Table, h, numEmptyStrings(Observed(kernel, h))).all

\* C28: an Apply that reads the dataplane and finds the hashes of a hook
\* chain equal to the expected ones, whether the chain has inserted rules,
\* appended rules or both, has no flush of the chain in its transaction,
\* leaves every rule of the chain in the kernel, and does not leave the chain
\* in dirtyInsertAppend.
C28_HookDirtyOnlyOnMismatch ==
  [][\A h \in HookChains :
       (last'.op = "Apply" /\ last'.returned /\ ~inSyncWithDataPlane /\ HookMatches(h))
         => /\ \A i \in 1..Len(last'.tx) :
                 ~(last'.tx[i].op = "flush chain" /\ last'.tx[i].chain = h)
            /\ kernel'[h] = kernel[h]
            /\ h \notin dirtyInsertAppend']_vars

\* The operations that add, replace, insert or delete a rule.
RuleOpKinds == {"add rule", "insert rule", "replace rule", "delete rule"}

\* The number of operations every transaction of Apply begins with.
Preamble == 1 + Len(KernelChains)

\* C29: in the transaction of an Apply, add table and the add chain of every
\* base chain come first; a chain the transaction deletes is flushed
\* before every rule operation; every add chain after the first
\* ones comes before every rule operation; and every delete chain comes
\* after every rule operation.
C29_TransactionOrdering ==
  (last.op = "Apply" /\ Len(last.tx) > 0) =>
    LET tx == last.tx
        ruleOps == {j \in 1..Len(tx) : tx[j].op \in RuleOpKinds}
        deleted == {tx[i].chain : i \in {j \in 1..Len(tx) : tx[j].op = "delete chain"}}
    IN /\ Len(tx) >= Preamble
       /\ tx[1].op = "add table"
       /\ \A i \in 1..Len(KernelChains) :
            tx[1 + i].op = "add chain" /\ tx[1 + i].chain = KernelChains[i]
       /\ \A c \in deleted :
            \E i \in 1..Len(tx) :
              /\ tx[i].op = "flush chain" /\ tx[i].chain = c
              /\ \A j \in ruleOps : i < j
       /\ \A i \in (Preamble + 1)..Len(tx) :
            tx[i].op = "add chain" => \A j \in ruleOps : i < j
       /\ \A i \in 1..Len(tx) :
            tx[i].op = "delete chain" => \A j \in ruleOps : j < i

\* An Apply that returned built a transaction that creates one owned chain,
\* deletes the other and changes rules.
C29_Witness ==
  /\ last.op = "Apply" /\ last.returned
  /\ \E i, j, k, l \in 1..Len(last.tx) :
       /\ last.tx[i].op = "flush chain" /\ last.tx[i].chain = "cali-a"
       /\ last.tx[j].op = "add chain" /\ last.tx[j].chain = "cali-b"
       /\ last.tx[k].op = "insert rule" /\ last.tx[k].chain = "PREROUTING"
       /\ last.tx[l].op = "delete chain" /\ last.tx[l].chain = "cali-a"
  /\ "cali-a" \notin DOMAIN kernel
  /\ "cali-b" \in DOMAIN kernel

\* The least of a non-empty set of integers.
Least(S) == CHOOSE x \in S : \A y \in S : x <= y

\* The reschedule value as the claim gives it, for a table with refresh
\* interval refresh, last read sinceRead ago, post-write interval interval
\* and post-write deadline untilDeadline ahead: one millisecond when the
\* deadline applies and has passed, else the least of the durations that
\* apply (zero when none does).
RescheduleValue(refresh, sinceRead, interval, untilDeadline) ==
  LET applying == (IF refresh > 0 THEN {refresh - sinceRead} ELSE {})
                    \cup (IF interval < Hour THEN {untilDeadline} ELSE {})
  IN IF interval < Hour /\ untilDeadline <= 0 THEN 1
     ELSE IF applying = {} THEN 0
     ELSE Least(applying)

\* Times and intervals the reschedule computation is evaluated on.
Instants == {0, 40, 100, 200}
Intervals == {minPostWriteInterval, 2 * minPostWriteInterval, Hour}

\* C30: an Apply that returns has returned the least of refreshInterval
\* minus the time since the last read (when refreshInterval > 0) and the time
\* until lastWriteTime + postWriteInterval (when postWriteInterval is under an
\* hour), both counted from the time of the call; and the computation gives
\* that value, and one millisecond when the post-write deadline applies and
\* has passed, for every table and time of call of the sets above.
C30_RescheduleValue ==
  /\ (last.op = "Apply" /\ last.returned) =>
       last.rescheduleAfter
         = RescheduleValue(refreshInterval, last.now - lastReadTime, postWriteInterval,
                           lastWriteTime + postWriteInterval - last.now)
  /\ \A refresh \in RefreshIntervals, interval \in Intervals :
       \A read \in Instants, write \in Instants, now \in Instants :
         LET t == [Table EXCEPT !.refreshInterval = refresh,
                                !.postWriteInterval = interval,
                                !.lastReadTime = read,
                                !.lastWriteTime = write]
             r == RescheduleAfter(t, now)
         IN /\ r = RescheduleValue(refresh, now - read, interval, write + interval - now)
            /\ (interval < Hour /\ now >= write + interval) => r = 1

\* An Apply called after time had passed, on a table with a refresh interval
\* of 90 ms and a post-write interval of 50 ms, returned 50 ms: the time to
\* the post-write deadline, less than the time to the next refresh.
C30_Witness ==
  /\ last.op = "Apply" /\ last.returned
  /\ last.now >= 100
  /\ refreshInterval = 90
  /\ postWriteInterval = 50
  /\ last.rescheduleAfter = 50
  /\ refreshInterval - (last.now - lastReadTime) = 90

\* C31: whatever PostWriteInterval the table was configured with, zero and
\* negative values included, postWriteInterval is at least 50ms in every
\* state; and after an Apply that committed it is the larger of the initial
\* interval (the configured one raised to 50ms) and twice the sum of the
\* peak read time and the peak write time as the commit read them.
C31_PostWriteIntervalFloor ==
  /\ postWriteInterval >= minPostWriteInterval
  /\ initialPostWriteInterval \in { Max(p, minPostWriteInterval) : p \in PostWriteConfigs }
  /\ (last.op = "Apply" /\ last.returned /\ last.commits >= 1) =>
       postWriteInterval =
         Max(initialPostWriteInterval, 2 * (last.peak + peakNftablesWriteTime))

\* An Apply committed after slow reads, and the dynamic minimum raised the
\* interval above the initial one.
C31_Witness ==
  /\ last.op = "Apply" /\ last.returned /\ last.commits >= 1
  /\ initialPostWriteInterval = minPostWriteInterval
  /\ last.peak > 0
  /\ postWriteInterval = 2 * last.peak
  /\ postWriteInterval > initialPostWriteInterval

\* Number of events e in events.
CountEvents(events, e) == Len(SelectSeq(events, LAMBDA x : x = e))

\* C32: within Apply and CheckRulesPresent, OnStillAlive is called right
\* before every attempt to read the kernel, retries included, and before every
\* applyUpdates attempt of the retry loop of Apply: every read and every
\* transaction run comes right after a callback, and there is one callback
\* for each read attempt and one for each applyUpdates attempt.
C32_AliveBeforeAttempts ==
  last.op \in {"Apply", "CheckRulesPresent"} =>
    /\ \A i \in 1..Len(last.events) :
         last.events[i] \in {"read", "run"} => (i > 1 /\ last.events[i - 1] = "alive")
    /\ CountEvents(last.events, "alive")
         = CountEvents(last.events, "read") + last.attempts
    /\ CountEvents(last.events, "run") = last.runs

\* An Apply whose first read failed once and whose first two transaction
\* runs failed: callback and read twice, then three times callback and run,
\* then the callback and the read of the reload.
C32_Witness ==
  /\ last.op = "Apply" /\ last.returned
  /\ last.attempts = 3
  /\ last.events = <<"alive", "read", "alive", "read",
                     "alive", "run", "alive", "run", "alive", "run",
                     "alive", "read">>

\* The sleeps before the first, second and third retry of a read, and the
\* time slept before the read attempt after k failed ones.
ReadSleeps == <<100, 200, 400>>
RECURSIVE Slept(_)
Slept(k) == IF k = 0 THEN 0 ELSE Slept(k - 1) + ReadSleeps[k]

\* A step that is a call of CheckRulesPresent.
CheckedStep ==
  /\ last'.op = "CheckRulesPresent"
  /\ kernel' = kernel
  /\ last'.foreign = ForeignSince(last)

\* C33: a read of the kernel that fails is tried again up to 3 times, after
\* sleeps of 100ms, 200ms and 400ms.  If an attempt succeeds the call goes on
\* with what that attempt read from the kernel; if the fourth attempt fails
\* too the call panics and nothing that was read is used or stored.
C33_BoundedReadRetries ==
  [][CheckedStep =>
       LET n == CountEvents(last'.events, "read")
       IN /\ n \in 1..(ReadRetries + 1)
          /\ ReadRetries = Len(ReadSleeps)
          /\ last'.returned =>
               /\ clock' - clock = Slept(n - 1)
               /\ last'.reads = 1
               /\ ~crashed'
               /\ last'.present =
                    PresentRules(last'.rules,
                                 CalculateRuleHashes(last'.chain, last'.rules),
                                 Slice(ReadHashes(kernel), last'.chain))
          /\ ~last'.returned =>
               /\ n = ReadRetries + 1
               /\ clock' - clock = Slept(ReadRetries)
               /\ last'.reads = 0
               /\ last'.cause = "read"
               /\ crashed'
               /\ last'.present = <<>>
               /\ UNCHANGED tableVars]_vars

\* CheckRulesPresent returned after three failed reads and a fourth that
\* succeeded, 700ms later, with the rules that the fourth read found.
C33_Witness ==
  /\ last.op = "CheckRulesPresent" /\ last.returned
  /\ CountEvents(last.events, "read") = ReadRetries + 1
  /\ clock = 700
  /\ last.present # <<>>

\* The list rules with the rules at i and j swapped.
Swapped(rules, i, j) == [rules EXCEPT ![i] = rules[j], ![j] = rules[i]]

\* The swap of the rules at i < j of chain c changes the fingerprints from i
\* on and leaves those before i alone.
SwapShows(c, rules, i, j) ==
  LET before == RuleHashes(c, rules)
      after == RuleHashes(c, Swapped(rules, i, j))
  IN /\ Len(after) = Len(before)
     /\ \A k \in 1..(i - 1) : after[k] = before[k]
     /\ \A k \in i..Len(rules) : after[k] # before[k]

\* C34 as stated: swapping any two distinct rules of a chain changes the
\* fingerprints at both positions and at every position after the first,
\* and leaves the fingerprints before the first position unchanged.
C34_SwapDistinctRules ==
  \A c \in DOMAIN chainNameToChain :
    LET rules == chainNameToChain[c]
    IN \A i \in 1..Len(rules) : \A j \in (i + 1)..Len(rules) :
         rules[i] # rules[j] => SwapShows(c, rules, i, j)

\* C34: swapping two rules of a chain that differ in their match or their
\* action changes the fingerprints at both positions and at every position
\* after the first, and leaves the fingerprints before the first position
\* unchanged; swapping two rules that differ in their comments only changes
\* no fingerprint; and the fingerprints of equal lists under one chain name
\* are equal.
C34_SwapRenderedRules ==
  \A c \in DOMAIN chainNameToChain :
    LET rules == chainNameToChain[c]
    IN /\ \A i \in 1..Len(rules) : \A j \in (i + 1)..Len(rules) :
            IF renderInner(rules[i], <<>>, "") # renderInner(rules[j], <<>>, "")
            THEN SwapShows(c, rules, i, j)
            ELSE RuleHashes(c, Swapped(rules, i, j)) = RuleHashes(c, rules)
       /\ \A rs \in HashMenu : rs = rules => RuleHashes(c, rs) = RuleHashes(c, rules)

\* cali-a holds three rules; the first and the second differ in the action,
\* the second and the third in the comment only; Apply has hashed them.
C34_Witness ==
  /\ last.op = "Apply" /\ last.returned
  /\ Has(chainNameToChain, "cali-a")
  /\ chainNameToChain["cali-a"] = <<DropC, Accept, AcceptC>>
  /\ "cali-a" \in Programmed

\* The first applyUpdates of an Apply called now whose transaction the
\* kernel fails: before is the call as it enters applyUpdates, after as
\* applyUpdates leaves it.
FirstAttemptFailing ==
  LET X0 == Ctx(Rechecked(Table, clock), kernel, clock, 0, 1, 0)
      X1 == IF ~X0.t.inSyncWithDataPlane THEN loadDataplaneState(X0) ELSE X0
  IN [before |-> X1, after |-> applyUpdates(X1, "forward")]

\* C35: a transaction that fails changes nothing.  When the run inside
\* applyUpdates returns an error, every field of the table, dirtyChains,
\* dirtyInsertAppend, chainToDataplaneHashes, chainToFullRules, lastWriteTime
\* and postWriteInterval among them, and the kernel are as before the
\* attempt, and the transaction built from them again is the same; an Apply
\* that gets through after failed runs ends with the transaction, the kernel
\* and the table of an Apply that met no failure, but for the later time of
\* its write and of the read after it.
C35_FailedTransactionChangesNothing ==
  [][(last'.op = "Apply" /\ last'.attempts >= 1 /\ last'.runs > last'.commits) =>
       LET F == FirstAttemptFailing
           Y == ApplyX(Table, kernel, clock, 0, 0, 0, "forward")
       IN /\ F.after.err /\ ~F.after.panic
          /\ F.after.runs = 1 /\ F.after.commits = 0
          /\ F.after.t = F.before.t
          /\ F.after.k = F.before.k
          /\ BuildTx(F.after.t, "forward") = F.after.tx
          /\ last'.returned =>
               /\ last'.commits = 1
               /\ last'.tx = Y.tx
               /\ kernel' = Y.k
               /\ Table' = [Y.t EXCEPT !.lastWriteTime = clock', !.lastReadTime = clock']
               /\ clock' > clock]_vars

\* An Apply whose first two runs failed and whose third run committed a
\* transaction that declares cali-a and adds its rules.
C35_Witness ==
  /\ last.op = "Apply" /\ last.returned
  /\ last.runs = 3 /\ last.commits = 1
  /\ \E i \in 1..Len(last.tx) : last.tx[i].op = "add rule" /\ last.tx[i].chain = "cali-a"

\* C36: every mutation call returns.  UpdateChain, RemoveChainByName,
\* InsertOrAppendRules and AppendRules come back after finitely many incref
\* and decref steps whatever they are given, chains that jump to themselves
\* or to each other in a cycle included: no such call exhausts the stack.
C36_MutationCallsReturn ==
  last.op \in {"UpdateChain", "RemoveChainByName", "InsertOrAppendRules", "AppendRules"}
    => (last.returned /\ ~crashed)

\* Number of rules among rules that jump or go to chain c.
RefsIn(rules, c) == Cardinality({i \in 1..Len(rules) : rules[i].Target = c})

\* Number of rules of the chains in names, referenced chains only, that jump
\* or go to chain c.
RECURSIVE RefsFrom(_, _)
RefsFrom(names, c) ==
  IF names = <<>> THEN 0
  ELSE (IF chainIsReferenced(Table, Head(names)) THEN RefsIn(RulesOf(Head(names)), c) ELSE 0)
       + RefsFrom(Tail(names), c)

\* C37: the reference counts are exact.  After any mutation calls that leave
\* an acyclic desired state, the count of every chain is 1 for a kernel base
\* chain of the table and 0 for any other, plus the number of rules that refer
\* to it among the cached rules and the inserted and appended rules of the
\* chains whose count is at least one.
C37_RefcountExact ==
  (Acyclic /\ ~crashed) =>
    \A c \in AllChains :
      Count(chainRefCounts, c)
        = (IF c \in BaseChains THEN 1 ELSE 0) + RefsFrom(ChainOrder, c)

\* C38: Apply emits no flush and no delete for a chain that the kernel, as
\* the Apply found it, does not hold and that the transaction has not
\* declared before: a chain that has a reference count but no entry in
\* chainNameToChain and was never programmed gets neither.
C38_NoFlushOfMissingChain ==
  [][(last'.op = "Apply" /\ last'.attempts >= 1) =>
       \A i \in 1..Len(last'.tx) :
         last'.tx[i].op \in {"flush chain", "delete chain"} =>
           \/ last'.tx[i].chain \in DOMAIN kernel
           \/ \E j \in 1..(i - 1) : /\ last'.tx[j].op = "add chain"
                                    /\ last'.tx[j].chain = last'.tx[i].chain]_vars

\* The rule lists old and new are different and differ in the comments of
\* their rules only.
CommentsApart(old, new) ==
  /\ old # new
  /\ Len(old) = Len(new)
  /\ \A i \in 1..Len(old) : [old[i] EXCEPT !.Comment = <<>>] = [new[i] EXCEPT !.Comment = <<>>]

\* C39: the fingerprint of a rule does not depend on its comment lines.  Two
\* rule lists that differ in their comments only have equal fingerprints; and
\* when UpdateChain gives a chain that the kernel holds rule for rule such a
\* list, the transaction of the next Apply holds no replace, delete or add
\* rule operation for the chain and the kernel keeps the chain's rules, the
\* old comments included.
C39_CommentsNotFingerprinted ==
  [][\A c \in OwnedChains : \A old \in HashMenu :
       ( /\ last.op = "UpdateChain" /\ last.chain = c /\ last.returned
         /\ c \in Programmed
         /\ CommentsApart(old, chainNameToChain[c])
         /\ KernelHolds(kernel, c, old)
         /\ last'.op = "Apply" /\ last'.attempts >= 1 )
         => /\ RuleHashes(c, old) = RuleHashes(c, chainNameToChain[c])
            /\ RuleOpsOn(last'.tx, c) = {}
            /\ last'.returned => (c \in DOMAIN kernel' /\ kernel'[c] = kernel[c])
    ]_vars

====
